---- MODULE Spec2Model ----
(***************************************************************************)
(* Resilience core of the futures-trading execution layer:                  *)
(*   - RateLimiter            (api/topstepx_client_v2.py, topstepx_client)  *)
(*   - RiskManager            (risk/risk_manager.py)                        *)
(*   - order paths            (main.py, core/order_manager.py, app.py)      *)
(*   - AuthManager            (api/auth_manager.py)                         *)
(*   - TopstepXClientV2/V1 request pipeline                                 *)
(* Each component has its own next-state relation over the shared state;    *)
(* the variables of the other components stay at their initial values.      *)
(***************************************************************************)
EXTENDS Integers, Sequences, FiniteSets, TLC

(***************************************************************************)
(* Bounds                                                                   *)
(***************************************************************************)
\* RateLimiter(max_requests, time_window), scaled down
MaxRequests == 2
TimeWindow == 3
\* largest value of the wall clock (seconds) explored for the limiter
MaxClock == 4
\* number of admissions explored
MaxAdmissions == 5

RLCallers == {"c1", "c2", "c3"}

VARIABLES
    rlClock,      \* time.time(), whole seconds
    rlRequests,   \* RateLimiter.requests (deque of admission timestamps)
    rlLock,       \* RateLimiter._lock owner, "" when free
    rlPc,         \* position of every caller inside acquire()
    rlWake,       \* earliest clock value at which a sleeping caller resumes
    rlAdmitted    \* history: the times at which acquire() returned

rlVars == <<rlClock, rlRequests, rlLock, rlPc, rlWake, rlAdmitted>>

(***************************************************************************)
(* RateLimiter                                                              *)
(***************************************************************************)
RECURSIVE PruneOlder(_, _)
\* while self.requests and self.requests[0] < cutoff: popleft()
PruneOlder(q, cutoff) ==
    IF q # <<>> /\ Head(q) < cutoff THEN PruneOlder(Tail(q), cutoff) ELSE q

\* wait_time = self.time_window - (now - self.requests[0])
WaitTime(q, now) == TimeWindow - (now - Head(q))

\* async with self._lock: now = time.time(); prune; decide whether to sleep
RLEnter(c) ==
    /\ rlPc[c] = "idle"
    /\ rlLock = ""
    /\ Len(rlAdmitted) < MaxAdmissions
    /\ rlLock' = c
    /\ LET pruned == PruneOlder(rlRequests, rlClock - TimeWindow) IN
         /\ rlRequests' = pruned
         /\ IF Len(pruned) >= MaxRequests /\ WaitTime(pruned, rlClock) > 0
              THEN /\ rlPc' = [rlPc EXCEPT ![c] = "sleeping"]
                   /\ rlWake' = rlClock + WaitTime(pruned, rlClock)
              ELSE /\ rlPc' = [rlPc EXCEPT ![c] = "append"]
                   /\ UNCHANGED rlWake
    /\ UNCHANGED <<rlClock, rlAdmitted>>

\* asyncio.sleep(wait_time) is over; clean up again after waiting
RLWake(c) ==
    /\ rlPc[c] = "sleeping"
    /\ rlClock >= rlWake
    /\ rlRequests' = PruneOlder(rlRequests, rlClock - TimeWindow)
    /\ rlPc' = [rlPc EXCEPT ![c] = "append"]
    /\ UNCHANGED <<rlClock, rlLock, rlWake, rlAdmitted>>

\* self.requests.append(time.time()); the lock is released and acquire returns
RLAppend(c) ==
    /\ rlPc[c] = "append"
    /\ rlRequests' = Append(rlRequests, rlClock)
    /\ rlAdmitted' = Append(rlAdmitted, rlClock)
    /\ rlLock' = ""
    /\ rlPc' = [rlPc EXCEPT ![c] = "idle"]
    /\ UNCHANGED <<rlClock, rlWake>>

\* the wall clock advances
RLTick ==
    /\ rlClock < MaxClock
    /\ rlClock' = rlClock + 1
    /\ UNCHANGED <<rlRequests, rlLock, rlPc, rlWake, rlAdmitted>>

InitRL ==
    /\ rlClock = 0
    /\ rlRequests = <<>>
    /\ rlLock = ""
    /\ rlPc = [c \in RLCallers |-> "idle"]
    /\ rlWake = 0
    /\ rlAdmitted = <<>>

(***************************************************************************)
(* RiskManager, TradingBot construction, wall clock of the trading day      *)
(***************************************************************************)
\* last calendar date explored
MaxDay == 2
\* number of update_pnl calls explored
MaxUpdates == 2
\* number of orders sent to the gateway explored
MaxOrders == 2

Bots == {"A", "B"}

\* realized P&L of one closed trade
PnlDeltas == {-950, -100, 0, 500}

\* realized P&L values explored where two accounts or the order paths run
IsolationDeltas == {-950, 500}

\* unrealized P&L reported by PositionTracker.get_total_unrealized_pnl()
UnrealizedPnls == {0, -200}

\* signals handed over by the strategy layer
Signals ==
    { [symbol |-> "MES", entry_price |-> 4000, stop_loss |-> 3990],
      [symbol |-> "MES", entry_price |-> 4000, stop_loss |-> 4000],
      [symbol |-> "MNQ", entry_price |-> 15000, stop_loss |-> 15400] }

\* quantities a manual order may ask for
ManualQuantities == {1, 10}

\* the instants of a day (minutes after midnight, configured timezone) at
\* which _is_trading_hours / _is_near_market_close change their answer
DayMinutes == <<0, 885, 900, 905, 911, 1020>>

Profile50K ==
    [account_size |-> 50000, daily_loss_limit |-> 1000,
     max_drawdown_limit |-> 2000, max_position_size |-> 5,
     min_position_size |-> 1]

Profile100K ==
    [account_size |-> 100000, daily_loss_limit |-> 2000,
     max_drawdown_limit |-> 3000, max_position_size |-> 6,
     min_position_size |-> 1]

\* a 50K profile whose max_drawdown_limit is overridden in the accounts file
ProfileCustom ==
    [account_size |-> 50000, daily_loss_limit |-> 1000,
     max_drawdown_limit |-> 5000, max_position_size |-> 5,
     min_position_size |-> 1]

\* risk_per_trade_percent = 1.5, in tenths of a percent
RiskPerTradePermille == 15

VARIABLES
    today,          \* datetime.now(ct_tz).date(), as a day number
    minuteIdx,      \* index into DayMinutes of the current time of day
    botSettings,    \* TradingBot.settings of every account
    botPaper,       \* settings.paper_trading_mode of every account
    rmInstance,     \* RiskManager._instance (0 is None)
    rmObj,          \* the RiskManager objects that exist, by identity
    botRm,          \* TradingBot.risk_manager (0 before construction)
    rmLast,         \* the operation performed last and what it returned
    rmUpdates,      \* number of update_pnl calls so far
    rmPeak,         \* history: largest account_size + total_pnl per object
    rmHaltDay,      \* history: date on which trading_halted was latched last
    rmLossReached,  \* history: update_pnl brought today's loss to 95% of limit
    gwOrders        \* history: orders that reached the gateway's place_order

riskVars == <<today, minuteIdx, botSettings, botPaper, rmInstance, rmObj,
              botRm, rmLast, rmUpdates, rmPeak, rmHaltDay, rmLossReached,
              gwOrders>>

Abs(x) == IF x < 0 THEN -x ELSE x
Max2(a, b) == IF a >= b THEN a ELSE b
Min2(a, b) == IF a <= b THEN a ELSE b
\* int(a / b) for b > 0: truncation toward zero
TruncDiv(a, b) == IF a >= 0 THEN a \div b ELSE -((-a) \div b)

Minute == DayMinutes[minuteIdx]

\* RiskManager._is_trading_hours
IsTradingHours(m) ==
    LET hour == m \div 60
        minute == m % 60
    IN  \/ hour >= 17 \/ hour < 15
        \/ hour = 15 /\ minute <= 10

\* RiskManager._is_near_market_close
IsNearMarketClose(m) ==
    LET hour == m \div 60
        minute == m % 60
    IN  \/ m >= 15 * 60 + 5
        \/ hour = 14 /\ minute >= 45

\* RiskManager._get_tick_value
TickValue(symbol) ==
    CASE symbol = "MES" -> 5
      [] symbol = "MNQ" -> 2
      [] symbol = "MGC" -> 1
      [] OTHER -> 1

\* RiskManager._get_max_contracts_for_balance
MaxContractsForBalance(balance) ==
    IF balance < 1500 THEN 2
    ELSE IF balance < 3000 THEN 3
    ELSE IF balance < 5000 THEN 4
    ELSE 5

\* RiskManager.__init__ (first construction only)
NewRiskManager(s) ==
    [settings |-> s,
     high_water_mark |-> s.account_size,
     daily_pnl |-> 0,
     total_pnl |-> 0,
     best_day_profit |-> 0,
     consecutive_losses |-> 0,
     trading_halted |-> FALSE,
     trading_halted_reason |-> "",
     current_date |-> 0,
     daily_start_balance |-> s.account_size]

Balance(o) == o.settings.account_size + o.total_pnl

\* RiskManager._halt_trading
HaltTrading(o, reason) ==
    IF ~o.trading_halted
      THEN [o EXCEPT !.trading_halted = TRUE, !.trading_halted_reason = reason]
      ELSE o

\* abs(self.daily_pnl) >= self.settings.daily_loss_limit * 0.95
DailyLossTrigger(o) == Abs(o.daily_pnl) * 100 >= o.settings.daily_loss_limit * 95

\* current_balance <= (high_water_mark - max_drawdown_limit) * 1.05
DrawdownTrigger(o) ==
    Balance(o) * 100 <= (o.high_water_mark - o.settings.max_drawdown_limit) * 105

\* RiskManager.can_trade: the value returned and the object afterwards
CanTrade(o, m) ==
    IF o.trading_halted THEN [ret |-> FALSE, obj |-> o]
    ELSE IF ~IsTradingHours(m) THEN [ret |-> FALSE, obj |-> o]
    ELSE IF DailyLossTrigger(o)
      THEN [ret |-> FALSE, obj |-> HaltTrading(o, "Approaching daily loss limit")]
    ELSE IF DrawdownTrigger(o)
      THEN [ret |-> FALSE, obj |-> HaltTrading(o, "Approaching trailing max drawdown")]
    ELSE IF o.consecutive_losses >= 3
      THEN [ret |-> FALSE, obj |-> HaltTrading(o, "3 consecutive losses - circuit breaker")]
    ELSE [ret |-> TRUE, obj |-> o]

\* calculate_position_size as it would be without the scaling-plan limit
CalculatePositionSizeNoPlan(o, signal, unrealized) ==
    LET current_balance == Balance(o) + unrealized
        stop_distance == Abs(signal.entry_price - signal.stop_loss)
        risk_per_contract == stop_distance * TickValue(signal.symbol)
        raw == TruncDiv(current_balance * RiskPerTradePermille,
                        1000 * risk_per_contract)
        capped == Max2(Min2(raw, o.settings.max_position_size),
                       o.settings.min_position_size)
        remaining10 == (o.settings.daily_loss_limit - Abs(o.daily_pnl)) * 8
    IN  IF stop_distance = 0 THEN 0
        ELSE IF risk_per_contract = 0 THEN 0
        ELSE IF risk_per_contract * capped * 10 > remaining10
          THEN Max2(TruncDiv(remaining10, 10 * risk_per_contract), 0)
        ELSE capped

\* calculate_position_size as it would be without the daily-loss budget
CalculatePositionSizeNoBudget(o, signal, unrealized) ==
    LET current_balance == Balance(o) + unrealized
        stop_distance == Abs(signal.entry_price - signal.stop_loss)
        risk_per_contract == stop_distance * TickValue(signal.symbol)
        raw == TruncDiv(current_balance * RiskPerTradePermille,
                        1000 * risk_per_contract)
        capped == Max2(Min2(Min2(raw, MaxContractsForBalance(current_balance)),
                            o.settings.max_position_size),
                       o.settings.min_position_size)
    IN  IF stop_distance = 0 THEN 0
        ELSE IF risk_per_contract = 0 THEN 0
        ELSE capped

\* RiskManager.calculate_position_size
CalculatePositionSize(o, signal, unrealized) ==
    LET current_balance == Balance(o) + unrealized
        stop_distance == Abs(signal.entry_price - signal.stop_loss)
        risk_per_contract == stop_distance * TickValue(signal.symbol)
        \* int(risk_per_trade / risk_per_contract)
        raw == TruncDiv(current_balance * RiskPerTradePermille,
                        1000 * risk_per_contract)
        capped == Max2(Min2(Min2(raw, MaxContractsForBalance(current_balance)),
                            o.settings.max_position_size),
                       o.settings.min_position_size)
        \* (daily_loss_limit - abs(daily_pnl)) * 0.8, in tenths
        remaining10 == (o.settings.daily_loss_limit - Abs(o.daily_pnl)) * 8
    IN  IF stop_distance = 0 THEN 0
        ELSE IF risk_per_contract = 0 THEN 0
        ELSE IF risk_per_contract * capped * 10 > remaining10
          THEN Max2(TruncDiv(remaining10, 10 * risk_per_contract), 0)
        ELSE capped

\* RiskManager.check_trade_risk
CheckTradeRisk(o, signal, unrealized, m) ==
    LET ct == CanTrade(o, m) IN
    IF ~ct.ret THEN ct
    ELSE IF CalculatePositionSize(ct.obj, signal, unrealized) <= 0
      THEN [ret |-> FALSE, obj |-> ct.obj]
    ELSE IF IsNearMarketClose(m) THEN [ret |-> FALSE, obj |-> ct.obj]
    ELSE [ret |-> TRUE, obj |-> ct.obj]

\* update_pnl as it would be if the high-water mark followed the balance down
UpdatePnlHwmFollows(o, realized_pnl) ==
    LET total == o.total_pnl + realized_pnl
        daily == o.daily_pnl + realized_pnl
    IN  [o EXCEPT
           !.total_pnl = total,
           !.daily_pnl = daily,
           !.high_water_mark = o.settings.account_size + total,
           !.best_day_profit = IF daily > @ THEN daily ELSE @,
           !.consecutive_losses = IF realized_pnl < 0 THEN @ + 1 ELSE 0]

\* update_pnl as it would be if exceeding the consistency threshold halted
UpdatePnlHaltsOnConsistency(o, realized_pnl) ==
    LET total == o.total_pnl + realized_pnl
        daily == o.daily_pnl + realized_pnl
        current_balance == o.settings.account_size + total
        best == IF daily > o.best_day_profit THEN daily ELSE o.best_day_profit
        n == [o EXCEPT
                !.total_pnl = total,
                !.daily_pnl = daily,
                !.high_water_mark =
                    IF current_balance > @ THEN current_balance ELSE @,
                !.best_day_profit = best,
                !.consecutive_losses = IF realized_pnl < 0 THEN @ + 1 ELSE 0]
    IN  IF total > 0 /\ best * 2 > total
          THEN HaltTrading(n, "Consistency rule") ELSE n

\* RiskManager.update_pnl
UpdatePnlObj(o, realized_pnl) ==
    LET total == o.total_pnl + realized_pnl
        daily == o.daily_pnl + realized_pnl
        current_balance == o.settings.account_size + total
    IN  [o EXCEPT
           !.total_pnl = total,
           !.daily_pnl = daily,
           !.high_water_mark =
               IF current_balance > @ THEN current_balance ELSE @,
           !.best_day_profit = IF daily > @ THEN daily ELSE @,
           !.consecutive_losses = IF realized_pnl < 0 THEN @ + 1 ELSE 0]

\* RiskManager.reset_daily_tracking
ResetDailyTrackingObj(o, date) ==
    IF o.current_date # date
      THEN [o EXCEPT
              !.current_date = date,
              !.daily_pnl = 0,
              !.daily_start_balance = o.settings.account_size + o.total_pnl,
              !.consecutive_losses = 0,
              !.trading_halted = FALSE,
              !.trading_halted_reason = ""]
      ELSE o

(***************************************************************************)
(* AuthManager                                                              *)
(***************************************************************************)
\* number of get_token calls explored
MaxAuthCalls == 3
\* number of clock steps explored
MaxAuthTicks == 3

AuthCallers == {"t1", "t2"}

\* timedelta(hours=24), in units of five minutes
TokenLifetime == 288
\* timedelta(minutes=5), in units of five minutes
RefreshBuffer == 1

\* how far the clock moves in one step: one unit, or most of a token's life
AuthJumps == {1, 286}

VARIABLES
    authNow,          \* datetime.now(), in units of five minutes
    authTicks,        \* number of clock steps so far
    authValidate,     \* settings.topstepx_validate_tokens
    access_token,     \* AuthManager.access_token (0 is None)
    token_expires_at, \* AuthManager.token_expires_at (0 is None)
    authLock,         \* AuthManager._lock owner, "" when free
    authQueue,        \* callers waiting for the lock, in arrival order
    authPc,           \* position of every caller inside get_token
    authCtx,          \* per caller: its argument and what it saw at the cache test
    authCalls,        \* number of get_token calls so far
    authLogins,       \* number of login requests sent to the gateway
    authLast,         \* the get_token call that returned last
    authCycle         \* history: the current refresh cycle

authVars == <<authNow, authTicks, authValidate, access_token, token_expires_at,
              authLock, authQueue, authPc, authCtx, authCalls, authLogins,
              authLast, authCycle>>

\* the test as it would be without the five-minute buffer
CacheValidNoBuffer(force_refresh) ==
    /\ ~force_refresh
    /\ access_token # 0
    /\ token_expires_at # 0
    /\ authNow < token_expires_at

\* get_token's test for handing out the cached token
CacheValid(force_refresh) ==
    /\ ~force_refresh
    /\ access_token # 0
    /\ token_expires_at # 0
    /\ authNow < token_expires_at - RefreshBuffer

\* a refresh is needed: forced, nothing cached, or at or past expiry - 5 min
RefreshNeeded(force_refresh) ==
    \/ force_refresh
    \/ access_token = 0
    \/ authNow >= token_expires_at - RefreshBuffer

NoCtx == [force |-> FALSE, tokenBefore |-> 0, expBefore |-> 0, at |-> 0,
          member |-> FALSE]

\* the value a get_token call that raised is recorded with
Raised == -1

(***************************************************************************)
(* Request pipeline of the gateway clients                                  *)
(***************************************************************************)
\* max_retries: int = 3
MaxRetries == 3
\* number of HTTP attempts of one call explored
MaxSent == 5
\* response.headers.get("Retry-After", 60)
DefaultRetryAfter == 60

\* what the gateway (or the transport) answers to one HTTP attempt;
\* body: "json" a JSON object with success = true and a well-formed payload,
\* "json_fail" a JSON object with success = false, "json_code" a JSON object
\* with success = true and errorCode other than 0, "json_list" a JSON array,
\* "text" not JSON, "client_error" / "exception" the transport raised;
\* retry_after: -1 header absent, -2 header present but not an integer
Responses ==
    { [status |-> 200, body |-> "json", retry_after |-> -1],
      [status |-> 200, body |-> "json_fail", retry_after |-> -1],
      [status |-> 200, body |-> "json_code", retry_after |-> -1],
      [status |-> 200, body |-> "json_list", retry_after |-> -1],
      [status |-> 200, body |-> "text", retry_after |-> -1],
      [status |-> 429, body |-> "text", retry_after |-> -1],
      [status |-> 429, body |-> "text", retry_after |-> 5],
      [status |-> 429, body |-> "text", retry_after |-> -2],
      [status |-> 500, body |-> "text", retry_after |-> -1],
      [status |-> 503, body |-> "text", retry_after |-> -1],
      [status |-> 401, body |-> "json", retry_after |-> -1],
      [status |-> 400, body |-> "json_list", retry_after |-> -1],
      [status |-> 404, body |-> "text", retry_after |-> -1],
      [status |-> 0, body |-> "client_error", retry_after |-> -1],
      [status |-> 0, body |-> "exception", retry_after |-> -1] }

VARIABLES
    reqPc,        \* "idle", "loop" (inside for attempt in range(max_retries)), "done"
    reqClient,    \* "v2" (TopstepXClientV2) or "v1" (TopstepXClient)
    reqReceived,  \* history: the answers to the HTTP attempts, in order
    reqAttempt,   \* the loop variable attempt
    reqSent,      \* number of HTTP attempts made
    reqSleeps,    \* the asyncio.sleep durations, in order
    reqAcquired,  \* number of RateLimiter.acquire() calls
    reqHeaders,   \* number of auth_manager.get_headers() calls
    reqResult,    \* what _request returned (or that it raised)
    reqOp,        \* the gateway operation that called _request
    opResult,     \* what that operation returned to its caller (or that it raised)
    reqTokenLeft  \* seconds from the get_headers() call to the token's
                  \* expiry minus the five-minute buffer

reqVars == <<reqPc, reqClient, reqReceived, reqAttempt, reqSent, reqSleeps,
             reqAcquired, reqHeaders, reqResult, reqOp, opResult, reqTokenLeft>>

\* the operations of TopstepXClientV2 that return a Result
Operations == {"_request", "list_accounts", "get_account_info",
               "list_available_contracts", "search_contracts",
               "flatten_account", "place_order"}

\* how long the token handed out by get_headers() stays inside its buffer
TokenLefts == {30, 1000}

\* RateLimiter(50, 30): the window of the historical lane, in seconds
HistoricalWindow == 30

NoResult == [kind |-> "none", status_code |-> 0, body |-> ""]

RECURSIVE Pow2(_)
Pow2(n) == IF n = 0 THEN 1 ELSE 2 * Pow2(n - 1)

\* the backoff as it would be if the exponent counted from one
BackoffWaitOffByOne(attempt) == Pow2(attempt + 1)

\* wait_time = 2 ** attempt
BackoffWait(attempt) == Pow2(attempt)

\* the test as it would be if it compared with max_retries
IsLastAttemptLate(attempt) == ~(attempt < MaxRetries)

\* attempt < max_retries - 1 is false: no retry is left
IsLastAttempt(attempt) == ~(attempt < MaxRetries - 1)

\* the test as it would be if it stopped short of 404
IsClientErrorNarrow(status) == 400 <= status /\ status < 404

\* 400 <= response.status < 500
IsClientError(status) == 400 <= status /\ status < 500

\* await response.json() succeeds
IsJson(body) == body \in {"json", "json_fail", "json_code", "json_list"}

\* the loop variable as it would be if a 429 did not use up an iteration
AttemptAfterThrottleFree(r, attempt) ==
    IF r.status = 429 THEN attempt ELSE attempt + 1

\* the loop variable after a continue: the next value of range(max_retries)
AttemptAfter(r, attempt) == attempt + 1

\* what one pass of the V2 retry loop does with a response:
\* "continue" with a sleep, or "return" with a result
ClassifyV2(r, attempt) ==
    LET retry == [step |-> "continue", sleep |-> BackoffWait(attempt),
                  result |-> NoResult]
        final(k, code, b) == [step |-> "return", sleep |-> 0,
                              result |-> [kind |-> k, status_code |-> code,
                                          body |-> b]]
    IN  IF r.body = "client_error"
          THEN IF ~IsLastAttempt(attempt) THEN retry
               ELSE final("error", 503, "")
        ELSE IF r.body = "exception" \/ (r.status = 429 /\ r.retry_after = -2)
          THEN IF ~IsLastAttempt(attempt) THEN retry
               ELSE final("error", 500, "")
        ELSE IF r.status = 429
          THEN [step |-> "continue",
                sleep |-> IF r.retry_after = -1 THEN DefaultRetryAfter
                          ELSE r.retry_after,
                result |-> NoResult]
        ELSE IF r.status >= 500
          THEN IF ~IsLastAttempt(attempt) THEN retry
               ELSE final("error", 502, "")
        ELSE IF IsClientError(r.status)
          \* error_json.get(...) needs a JSON object; anything else is
          \* reported with the raw text
          THEN final("error", r.status,
                     IF r.body \in {"json", "json_fail", "json_code"}
                       THEN "structured"
                     ELSE "raw")
        ELSE IF IsJson(r.body) THEN final("success", r.status, r.body)
        ELSE final("error", 502, "")

\* the same for the V1 client, which raises instead of returning an Error
ClassifyV1(r, attempt) ==
    LET retry == [step |-> "continue", sleep |-> BackoffWait(attempt),
                  result |-> NoResult]
        final(k, code, b) == [step |-> "return", sleep |-> 0,
                              result |-> [kind |-> k, status_code |-> code,
                                          body |-> b]]
        retryOrRaise == IF ~IsLastAttempt(attempt) THEN retry
                        ELSE final("raise", 0, "")
    IN  IF r.body = "client_error" \/ r.body = "exception" THEN retryOrRaise
        ELSE IF r.status = 429 /\ r.retry_after = -2 THEN retryOrRaise
        ELSE IF r.status = 429
          THEN [step |-> "continue",
                sleep |-> IF r.retry_after = -1 THEN DefaultRetryAfter
                          ELSE r.retry_after,
                result |-> NoResult]
        ELSE IF r.status >= 500 THEN retryOrRaise
        ELSE IF IsClientError(r.status)
          THEN final("error_dict", r.status,
                     IF IsJson(r.body) THEN "structured" ELSE "raw")
        ELSE IF IsJson(r.body) THEN final("success", r.status, r.body)
        ELSE retryOrRaise

\* what a gateway operation of the V2 client makes of _request's result
DerivedResult(op, res) ==
    LET ok(b) == [kind |-> "success", status_code |-> 200, body |-> b]
        err(code) == [kind |-> "error", status_code |-> code, body |-> ""]
        raised == [kind |-> "raise", status_code |-> 0, body |-> ""]
    IN  IF op = "_request" \/ res.kind # "success" THEN res
        ELSE IF op = "list_accounts"
          THEN ok(IF res.body \in {"json", "json_code"} THEN "accounts"
                  ELSE "empty")
        ELSE IF op = "get_account_info"
          THEN IF res.body = "json_list" THEN err(500) ELSE ok(res.body)
        ELSE IF op \in {"list_available_contracts", "search_contracts"}
          THEN IF res.body = "json" THEN ok("contracts") ELSE err(502)
        \* flatten_account, place_order: data.get("errorMessage", ...) is
        \* called on whatever was parsed; a JSON array has no get
        ELSE IF res.body \in {"json", "json_code"} THEN ok(res.body)
        ELSE IF res.body = "json_fail" THEN err(502)
        ELSE raised

(***************************************************************************)
(* calculate_position_size over configurations, balances and signals        *)
(***************************************************************************)
\* settings.max_position_size / settings.min_position_size explored
MaxPositionSizes == {1, 3, 5, 10}
MinPositionSizes == {0, 1, 2, 6}
\* total_pnl explored: balances in every tier of the scaling plan, and below 0
SizingTotals == {0, 1500, -45500, -47500, -49000, -50400}
\* daily_pnl explored
SizingDailies == {0, 500, -800, -990, -1200}
\* signals explored: the stop 10, 1 and 0 points away, a symbol without an
\* entry in tick_values, a stop above the entry
SizingSignals ==
    Signals \cup
    { [symbol |-> "MES", entry_price |-> 4000, stop_loss |-> 3999],
      [symbol |-> "ZZZ", entry_price |-> 100, stop_loss |-> 90] }

VARIABLES
    szIn,   \* the governor, signal and unrealized P&L of the last call
    szOut   \* what calculate_position_size returned

szVars == <<szIn, szOut>>

\* the governor of a 50K account with the given limits and P&L
SizingGovernor(maxp, minp, total, daily) ==
    [NewRiskManager([Profile50K EXCEPT !.max_position_size = maxp,
                                       !.min_position_size = minp])
       EXCEPT !.total_pnl = total,
              !.daily_pnl = daily,
              !.high_water_mark = Max2(@, 50000 + total)]

NoSizing == [called |-> FALSE,
             o |-> NewRiskManager(Profile50K),
             signal |-> [symbol |-> "", entry_price |-> 0, stop_loss |-> 0],
             unrealized |-> 0]

InitSizing ==
    /\ szIn = NoSizing
    /\ szOut = 0

(***************************************************************************)
(* WebSocketHandler: connect, disconnect and the reconnect loop             *)
(***************************************************************************)
\* websocket_reconnect_delay: int = 1
WsInitialDelay == 1
\* websocket_max_reconnect_delay, scaled down from 60
WsMaxDelay == 4
\* number of connection attempts explored
WsMaxAttempts == 5
\* number of connect() calls explored
WsMaxConnects == 2

VARIABLES
    wsRunning,     \* self.running
    wsEvent,       \* self._reconnect_event is set
    wsHandles,     \* which of user_connection / market_connection are not None
    wsLock,        \* who holds self._lock: "none" or "disconnect"
    wsLoopPc,      \* _connect_loop: "none" (no task), "start", "token",
                   \* "starting", "subscribed", "stopping", "sleep", "exited"
    wsBackoff,     \* the local variable backoff
    wsSleepLeft,   \* seconds left of the asyncio.sleep in progress
    wsSleeps,      \* history: the reconnect sleeps, each with the number of
                   \* cycles since the loop started or last reached SUBSCRIBED
    wsStreak,      \* history: that number of cycles
    wsAttempts,    \* history: connection attempts started
    wsSubs,        \* history: _subscribe() calls
    wsConnects,    \* history: connect() calls that started a loop
    wsInterrupted, \* history: where the loop was when disconnect() set the flag
    wsReturned,    \* history: disconnect() has returned, no connect() since
    wsUp,          \* the hubs that are open and SUBSCRIBED
    wsSent,        \* the subscriptions sent on the hubs that exist
    wsAccount,     \* self._account_id (0 is None)
    wsClosedNow    \* history: a hub built in the current cycle has closed

wsVars == <<wsRunning, wsEvent, wsHandles, wsLock, wsLoopPc, wsBackoff,
            wsSleepLeft, wsSleeps, wsStreak, wsAttempts, wsSubs, wsConnects,
            wsInterrupted, wsReturned, wsUp, wsSent, wsAccount, wsClosedNow>>

\* user_connection and market_connection
Channels == {"user", "market"}

\* account ids: 0 for None, and one account
AccountIds == {0, 7}

\* _subscribe: SubscribeAccounts, and for a known account id SubscribeOrders,
\* SubscribePositions and SubscribeTrades, all sent on the user hub
Subscriptions(account_id) ==
    {[channel |-> "user", method |-> "SubscribeAccounts", account |-> 0]}
    \cup (IF account_id # 0
            THEN {[channel |-> "user", method |-> mth, account |-> account_id] :
                    mth \in {"SubscribeOrders", "SubscribePositions",
                             "SubscribeTrades"}}
            ELSE {})

\* _register_handlers as it would be with a close handler on the user hub only
HasCloseHandlerUserOnly(c) == c = "user"

\* _register_handlers puts a close handler on both hubs
HasCloseHandler(c) == c \in Channels

\* sleep_time = min(backoff, websocket_max_reconnect_delay)
SleepTime(backoff) == Min2(backoff, WsMaxDelay)

\* the backoff as it would be if it grew by the initial delay
NextBackoffLinear(backoff) == Min2(backoff + WsInitialDelay, WsMaxDelay)

\* backoff = min(backoff * 2, websocket_max_reconnect_delay)
NextBackoff(backoff) == Min2(backoff * 2, WsMaxDelay)

\* disconnect() as it would be if it did not await the loop task
TaskAwaitedNever(loopPc) == TRUE

\* await self._task returns once the loop task has finished
TaskAwaited(loopPc) == loopPc = "exited"

InitWs ==
    /\ wsRunning = FALSE
    /\ wsEvent = FALSE
    /\ wsHandles = {}
    /\ wsLock = "none"
    /\ wsLoopPc = "none"
    /\ wsBackoff = 0
    /\ wsSleepLeft = 0
    /\ wsSleeps = <<>>
    /\ wsStreak = 0
    /\ wsAttempts = 0
    /\ wsSubs = 0
    /\ wsConnects = 0
    /\ wsInterrupted = "none"
    /\ wsReturned = FALSE
    /\ wsUp = {}
    /\ wsSent = {}
    /\ wsAccount = 0
    /\ wsClosedNow = FALSE

(***************************************************************************)
(* WebSocketHandler: delivery of hub events to the registered callbacks     *)
(***************************************************************************)
\* number of events of one channel explored
FdMaxEvents == 3
\* number of callbacks registered for the event type explored
FdMaxCallbacks == 2

VARIABLES
    fdCallbacks,  \* len(self.callbacks[event_type])
    fdArrived,    \* number of events the hub thread has handed over, in order
    fdReady,      \* the event loop's queue of runnable _emit_event tasks
    fdTask,       \* per event: where its _emit_event task is
    fdLog         \* history: the callback invocations <<callback, event>>

fdVars == <<fdCallbacks, fdArrived, fdReady, fdTask, fdLog>>

FdEvents == 1..FdMaxEvents

InitFeed ==
    /\ fdCallbacks = 1
    /\ fdArrived = 0
    /\ fdReady = <<>>
    /\ fdTask = [e \in FdEvents |-> [pc |-> "none", idx |-> 0]]
    /\ fdLog = <<>>

(***************************************************************************)
(* WebSocketHandler: normalization of one event before its delivery         *)
(***************************************************************************)
\* the callback keys of _register_handlers
EventTypes == {"account_update", "order_update", "position_update",
               "trade_update", "quote_update"}

\* what the hub hands to handler(args) as args[0]: a dict or something else
\* (None, a list), and the fields the normalizers convert. "none" is a
\* missing field, "x" a value that is not a number.
Payloads ==
    [dict : BOOLEAN,
     type : {"none", "1", "2", "x"},
     size : {"none", "2", "x"},
     price : {"none", "5", "x"}]

VARIABLES
    emIn,   \* the event of the _emit_event call: its type and payload
    emOut   \* history: what each callback was called with, in list order

emVars == <<emIn, emOut>>

NoEmit == [called |-> FALSE]

\* int(x) and float(x) raise ValueError on a string that is not a number
Converts(field) == field # "x"

\* _normalize_quote_payload raises on payload.get of a payload that is no
\* dict; a price that is no number is passed on as it is
QuoteNormalizes(payload) == payload.dict

\* _normalize_position_payload raises on a payload that is no dict, on
\* int(side_code) and on float(size), float(price)
PositionNormalizes(payload) ==
    /\ payload.dict
    /\ Converts(payload.type)
    /\ Converts(payload.size)
    /\ Converts(payload.price)

\* the event types _prepare_event_payload normalizes
IsNormalized(event_type) == event_type \in {"quote_update", "position_update"}

\* an event whose normalizer raises
NormalizationFails(event_type, payload) ==
    \/ event_type = "quote_update" /\ ~QuoteNormalizes(payload)
    \/ event_type = "position_update" /\ ~PositionNormalizes(payload)

\* side = "LONG" if int(side_code) == 1 else "SHORT", side_code defaulting to 1
Side(payload) == IF payload.type \in {"none", "1"} THEN "LONG" ELSE "SHORT"

\* _prepare_event_payload: the normalized payload, or, when the event type
\* has no normalizer or the normalizer raised, the payload as it came
PrepareEventPayload(event_type, payload) ==
    IF IsNormalized(event_type) /\ ~NormalizationFails(event_type, payload)
      THEN [form |-> "normalized",
            payload |-> payload,
            side |-> IF event_type = "position_update"
                       THEN Side(payload) ELSE "none"]
      ELSE [form |-> "raw", payload |-> payload, side |-> "none"]

InitEmit ==
    /\ emIn = NoEmit
    /\ emOut = <<>>

(***************************************************************************)
(* Realized fills on their way from the feed and the gateway                *)
(***************************************************************************)
\* number of fills explored
MaxFills == 2

\* realized P&L of a fill (profitAndLoss of a completed round-turn)
FillPnls == {-950, 500}

\* the WebSocketHandler a fill comes in on: TradingBot.ws_handler, for which
\* nothing registers a callback, or the handler of the API server, whose
\* callbacks are the forwarders to the dashboard sockets
FillFeeds == {"bot", "server"}

VARIABLES
    flFills,      \* history: realized P&L of the fills delivered for account A
    flBroadcasts, \* messages handed to websocket_manager.broadcast
    flRefreshes   \* _refresh_positions_pnl tasks created and not yet run

flVars == <<flFills, flBroadcasts, flRefreshes>>

RECURSIVE SumSeq(_)
SumSeq(q) == IF q = <<>> THEN 0 ELSE Head(q) + SumSeq(Tail(q))

InitFills ==
    /\ flFills = <<>>
    /\ flBroadcasts = 0
    /\ flRefreshes = 0

(***************************************************************************)
(* One client's gateway requests in a row, with the AuthManager's cache     *)
(***************************************************************************)
\* number of gateway requests explored
MaxSessionRequests == 2

\* the answers explored here: success, rejected authentication, server error
SessionResponses ==
    { [status |-> 200, body |-> "json", retry_after |-> -1],
      [status |-> 401, body |-> "json", retry_after |-> -1],
      [status |-> 500, body |-> "text", retry_after |-> -1] }

VARIABLES
    snLog   \* history: per request the token sent, whether get_token logged
            \* in and what the login met, the cached token and its expiry
            \* before and after, the status of every answer received and the
            \* Result

snVars == <<snLog>>

\* what a login attempt meets: a token that validates, an HTTP error, an error
\* envelope, an envelope without token, a token /Auth/validate rejects
LoginOutcomes ==
    {"ok", "http_error", "error_envelope", "no_token", "invalid_token"}

LoginSucceedsUnvalidated(outcome, validate) ==
    outcome \in {"ok", "invalid_token"}

\* get_token's try block: _request_token returns a token, and _validate_token
\* is asked only when topstepx_validate_tokens is set
LoginSucceeds(outcome, validate) ==
    \/ outcome = "ok"
    \/ outcome = "invalid_token" /\ ~validate

\* the V2 retry loop from the given attempt on, answers[k] being the answer
\* to the k-th HTTP attempt
RECURSIVE RunV2(_, _)
RunV2(answers, attempt) ==
    IF attempt >= MaxRetries
      THEN [seen |-> <<>>,
            result |-> [kind |-> "error", status_code |-> 503, body |-> ""]]
    ELSE LET r == answers[attempt + 1]
             c == ClassifyV2(r, attempt)
         IN  IF c.step = "return"
               THEN [seen |-> <<r.status>>, result |-> c.result]
               ELSE LET rest == RunV2(answers, AttemptAfter(r, attempt)) IN
                    [seen |-> <<r.status>> \o rest.seen, result |-> rest.result]

InitSession == snLog = <<>>

(***************************************************************************)
(* AccountManager: the registry of bots and the start of a TradingBot        *)
(***************************************************************************)
VARIABLES
    amBots,       \* AccountManager.bots: the accounts with a registered bot
    botRunning,   \* TradingBot.running of the bot registered for an account
    botTask,      \* start_bot_with_error_handling of that bot: "none",
                  \* "scheduled", "raised" (bot.start() raised and was logged)
    amStatus,     \* history: "running" of the last get_account_status since
                  \* the account last changed ("none" when not asked)
    amHealth      \* history: "running" of the last get_bot_health

amVars == <<amBots, botRunning, botTask, amStatus, amHealth>>

\* get_account_status: bot is not None and bot.running if bot else False
StatusRunning(registered, running) == registered /\ running

\* get_bot_health: not registered -> False, else bot.running
HealthRunning(registered, running) == registered /\ running

Report(flag) == IF flag THEN "running" ELSE "stopped"

InitAm ==
    /\ amBots = {}
    /\ botRunning = [a \in Bots |-> FALSE]
    /\ botTask = [a \in Bots |-> "none"]
    /\ amStatus = [a \in Bots |-> "none"]
    /\ amHealth = [a \in Bots |-> "none"]

(***************************************************************************)
(* PositionTracker: tracked positions synced from the gateway (V1 client)    *)
(***************************************************************************)
\* number of sync_positions calls explored
MaxSyncs == 2

\* ids of the positions the gateway may list
PositionIds == {"p1", "p2"}

\* the answers explored for /Position/searchOpen
PositionResponses ==
    { [status |-> 200, body |-> "json", retry_after |-> -1],
      [status |-> 200, body |-> "json_fail", retry_after |-> -1],
      [status |-> 200, body |-> "json_list", retry_after |-> -1],
      [status |-> 404, body |-> "text", retry_after |-> -1],
      [status |-> 401, body |-> "json", retry_after |-> -1],
      [status |-> 500, body |-> "text", retry_after |-> -1],
      [status |-> 0, body |-> "client_error", retry_after |-> -1] }

VARIABLES
    ptPositions,  \* the keys of PositionTracker.positions
    ptSyncs,      \* number of sync_positions calls made
    ptLast        \* history of the last sync_positions: what _request gave,
                  \* the open positions at the gateway, the keys before

ptVars == <<ptPositions, ptSyncs, ptLast>>

\* the V1 retry loop from the given attempt on, answers[k] being the answer
\* to the k-th HTTP attempt; the loop running out raises
RECURSIVE RunV1(_, _)
RunV1(answers, attempt) ==
    IF attempt >= MaxRetries
      THEN [kind |-> "raise", status_code |-> 0, body |-> ""]
    ELSE LET c == ClassifyV1(answers[attempt + 1], attempt) IN
         IF c.step = "return" THEN c.result
         ELSE RunV1(answers, AttemptAfter(answers[attempt + 1], attempt))

\* TopstepXClient.get_open_positions: a list is taken as the positions, a
\* dict with success as its "positions", any other dict (an envelope with
\* success false, the body of a 4xx answer) as no position at all
GetOpenPositions(res, open) ==
    IF res.kind = "raise" THEN [raised |-> TRUE, ids |-> {}]
    ELSE IF res.kind = "success" /\ res.body \in {"json", "json_code", "json_list"}
      THEN [raised |-> FALSE, ids |-> open]
    ELSE [raised |-> FALSE, ids |-> {}]

\* the keys of self.positions after sync_positions: listed positions are
\* updated or added, tracked positions not listed are deleted; an exception
\* is logged and leaves the dict alone
SyncedPositions(tracked, query) ==
    IF query.raised THEN tracked
    ELSE (tracked \cup query.ids) \ {p \in tracked : p \notin query.ids}

InitPt ==
    /\ ptPositions = {}
    /\ ptSyncs = 0
    /\ ptLast = [called |-> FALSE, result |-> NoResult, open |-> {},
                 before |-> {}]

(***************************************************************************)
(* OrderManager: local orders and the gateway primitives it invokes          *)
(***************************************************************************)
\* number of orders kept in OrderManager.orders
MaxLocalOrders == 2

\* quantities modify_order is asked for
ModifyQuantities == {1, 2}

VARIABLES
    omOrders,   \* OrderManager.orders, in order of creation: status, quantity
    omCalls,    \* history: the api_client primitives OrderManager has invoked
    omDone      \* history: the operations that found something to act on

omVars == <<omOrders, omCalls, omDone>>

GatewayCallAlways(paper, primitive) == {primitive}

\* if not self.settings.paper_trading_mode: await self.api_client.<primitive>
GatewayCall(paper, primitive) == IF paper THEN {} ELSE {primitive}

InitOm ==
    /\ omOrders = <<>>
    /\ omCalls = {}
    /\ omDone = {}

(***************************************************************************)
(* Frames: what the actions of one component leave alone                    *)
(***************************************************************************)
RLFrame == UNCHANGED <<riskVars, authVars, reqVars, szVars, wsVars, fdVars, emVars, flVars, snVars, amVars, ptVars, omVars>>
RiskFrame == UNCHANGED <<rlVars, authVars, reqVars, szVars, wsVars, fdVars, emVars, flVars, snVars, amVars, ptVars, omVars>>
AuthFrame == UNCHANGED <<rlVars, riskVars, reqVars, szVars, wsVars, fdVars, emVars, flVars, snVars, amVars, ptVars, omVars>>
ReqFrame == UNCHANGED <<rlVars, riskVars, authVars, szVars, wsVars, fdVars, emVars, flVars, snVars, amVars, ptVars, omVars>>
SizingFrame == UNCHANGED <<rlVars, riskVars, authVars, reqVars, wsVars, fdVars, emVars, flVars, snVars, amVars, ptVars, omVars>>
WsFrame == UNCHANGED <<rlVars, riskVars, authVars, reqVars, szVars, fdVars, emVars, flVars, snVars, amVars, ptVars, omVars>>
FeedFrame == UNCHANGED <<rlVars, riskVars, authVars, reqVars, szVars, wsVars, emVars, flVars, snVars, amVars, ptVars, omVars>>
EmitFrame == UNCHANGED <<rlVars, riskVars, authVars, reqVars, szVars, wsVars, fdVars, flVars, snVars, amVars, ptVars, omVars>>
FillFrame == UNCHANGED <<rlVars, riskVars, authVars, reqVars, szVars, wsVars, fdVars, emVars, snVars, amVars, ptVars, omVars>>
AmFrame == UNCHANGED <<rlVars, riskVars, authVars, reqVars, szVars, wsVars, fdVars, emVars, flVars, snVars, ptVars, omVars>>
PtFrame == UNCHANGED <<rlVars, riskVars, authVars, reqVars, szVars, wsVars, fdVars, emVars, flVars, snVars, amVars, omVars>>
OmFrame == UNCHANGED <<rlVars, riskVars, authVars, reqVars, szVars, wsVars, fdVars, emVars, flVars, snVars, amVars, ptVars>>

(***************************************************************************)
(* Operations on an account's risk governor                                 *)
(***************************************************************************)
\* the day's realized loss is at least 95% of daily_loss_limit
LossAtThreshold(o) == (0 - o.daily_pnl) * 100 >= o.settings.daily_loss_limit * 95

\* stores the governor of bot b after an operation and keeps the history
RiskStep(b, newObj, last) ==
    LET i == botRm[b]
        old == rmObj[i]
    IN  /\ rmObj' = [rmObj EXCEPT ![i] = newObj]
        /\ rmLast' = last
        /\ rmPeak' = [rmPeak EXCEPT ![i] = Max2(@, Balance(newObj))]
        /\ rmHaltDay' = [rmHaltDay EXCEPT ![i] =
               IF ~old.trading_halted /\ newObj.trading_halted THEN today ELSE @]
        /\ rmLossReached' = [rmLossReached EXCEPT ![i] =
               IF last.op = "update_pnl" /\ LossAtThreshold(newObj) THEN TRUE
               ELSE IF last.op = "reset_daily_tracking" /\ old.current_date # today
                 THEN FALSE
               ELSE @]

\* TradingBot.__init__: self.risk_manager = RiskManager(settings, tracker);
\* RiskManager.__new__ hands out the class-level instance, __init__ returns
\* at once when that instance is already initialized
Construct(b) ==
    /\ botRm[b] = 0
    /\ IF rmInstance = 0
         THEN /\ rmObj' = Append(rmObj, NewRiskManager(botSettings[b]))
              /\ rmInstance' = Len(rmObj) + 1
              /\ botRm' = [botRm EXCEPT ![b] = Len(rmObj) + 1]
              /\ rmPeak' = Append(rmPeak, botSettings[b].account_size)
              /\ rmHaltDay' = Append(rmHaltDay, 0)
              /\ rmLossReached' = Append(rmLossReached, FALSE)
         ELSE /\ botRm' = [botRm EXCEPT ![b] = rmInstance]
              /\ UNCHANGED <<rmObj, rmInstance, rmPeak, rmHaltDay, rmLossReached>>
    /\ rmLast' = [op |-> "construct", bot |-> b, ret |-> FALSE]
    /\ UNCHANGED <<today, minuteIdx, botSettings, botPaper, rmUpdates, gwOrders>>
    /\ RiskFrame

UpdatePnl(b, realized_pnl) ==
    /\ botRm[b] # 0
    /\ rmUpdates < MaxUpdates
    /\ rmUpdates' = rmUpdates + 1
    /\ RiskStep(b, UpdatePnlObj(rmObj[botRm[b]], realized_pnl),
                [op |-> "update_pnl", bot |-> b, ret |-> FALSE])
    /\ UNCHANGED <<today, minuteIdx, botSettings, botPaper, rmInstance, botRm,
                   gwOrders>>
    /\ RiskFrame

CanTradeCall(b) ==
    /\ botRm[b] # 0
    /\ LET r == CanTrade(rmObj[botRm[b]], Minute) IN
         RiskStep(b, r.obj, [op |-> "can_trade", bot |-> b, ret |-> r.ret])
    /\ UNCHANGED <<today, minuteIdx, botSettings, botPaper, rmInstance, botRm,
                   rmUpdates, gwOrders>>
    /\ RiskFrame

\* StrategySelector filtering signals through check_trade_risk
CheckTradeRiskCall(b, signal, unrealized) ==
    /\ botRm[b] # 0
    /\ LET r == CheckTradeRisk(rmObj[botRm[b]], signal, unrealized, Minute) IN
         RiskStep(b, r.obj, [op |-> "check_trade_risk", bot |-> b, ret |-> r.ret])
    /\ UNCHANGED <<today, minuteIdx, botSettings, botPaper, rmInstance, botRm,
                   rmUpdates, gwOrders>>
    /\ RiskFrame

ResetDailyTracking(b) ==
    /\ botRm[b] # 0
    /\ RiskStep(b, ResetDailyTrackingObj(rmObj[botRm[b]], today),
                [op |-> "reset_daily_tracking", bot |-> b, ret |-> FALSE])
    /\ UNCHANGED <<today, minuteIdx, botSettings, botPaper, rmInstance, botRm,
                   rmUpdates, gwOrders>>
    /\ RiskFrame

\* RiskManager.liquidate_all_positions
LiquidateAllPositions(b) ==
    /\ botRm[b] # 0
    /\ RiskStep(b, HaltTrading(rmObj[botRm[b]], "Emergency liquidation"),
                [op |-> "liquidate_all_positions", bot |-> b, ret |-> FALSE])
    /\ UNCHANGED <<today, minuteIdx, botSettings, botPaper, rmInstance, botRm,
                   rmUpdates, gwOrders>>
    /\ RiskFrame

\* the wall clock moves on to the next instant of the day, or to the next day
Tick ==
    /\ IF minuteIdx < Len(DayMinutes)
         THEN minuteIdx' = minuteIdx + 1 /\ UNCHANGED today
         ELSE today < MaxDay /\ today' = today + 1 /\ minuteIdx' = 1
    /\ rmLast' = [op |-> "tick", bot |-> "", ret |-> FALSE]
    /\ UNCHANGED <<botSettings, botPaper, rmInstance, rmObj, botRm, rmUpdates,
                   rmPeak, rmHaltDay, rmLossReached, gwOrders>>
    /\ RiskFrame

(***************************************************************************)
(* Paths to the gateway's place_order                                       *)
(***************************************************************************)
\* OrderManager.execute_signal: the governor afterwards, whether
\* check_trade_risk returned true for the signal, and the quantity handed to
\* api_client.place_order (0 when no order is sent to the gateway)
ExecuteSignal(o, signal, unrealized, m, skip_risk_check, paper) ==
    LET chk == IF skip_risk_check THEN [ret |-> TRUE, obj |-> o]
               ELSE CheckTradeRisk(o, signal, unrealized, m)
        quantity == CalculatePositionSize(chk.obj, signal, unrealized)
    IN  [obj |-> chk.obj,
         checked |-> ~skip_risk_check /\ chk.ret,
         sized |-> quantity,
         sent |-> IF chk.ret /\ quantity > 0 /\ ~paper THEN quantity ELSE 0]

\* TradingBot._trading_loop, one pass over one signal: can_trade, then
\* check_trade_risk, then execute_signal(skip_risk_check=True)
TradingLoopSignal(b, signal, unrealized) ==
    /\ botRm[b] # 0
    /\ IsTradingHours(Minute)
    /\ Cardinality(gwOrders) < MaxOrders
    /\ LET ct == CanTrade(rmObj[botRm[b]], Minute)
           chk == CheckTradeRisk(ct.obj, signal, unrealized, Minute)
           ex == ExecuteSignal(chk.obj, signal, unrealized, Minute, TRUE,
                               botPaper[b])
       IN  IF ~ct.ret
             THEN /\ RiskStep(b, ct.obj,
                        [op |-> "trading_loop", bot |-> b, ret |-> FALSE])
                  /\ UNCHANGED gwOrders
           ELSE IF ~chk.ret
             THEN /\ RiskStep(b, chk.obj,
                        [op |-> "trading_loop", bot |-> b, ret |-> FALSE])
                  /\ UNCHANGED gwOrders
           ELSE /\ RiskStep(b, ex.obj,
                        [op |-> "trading_loop", bot |-> b, ret |-> ex.sent > 0])
                /\ gwOrders' =
                     IF ex.sent > 0
                       THEN gwOrders \cup
                              {[via |-> "trading_loop", bot |-> b,
                                quantity |-> ex.sent, authorized |-> chk.ret,
                                sized |-> ex.sized]}
                       ELSE gwOrders
    /\ UNCHANGED <<today, minuteIdx, botSettings, botPaper, rmInstance, botRm,
                   rmUpdates>>
    /\ RiskFrame

\* OrderManager.execute_signal called with its default skip_risk_check=False
ExecuteSignalChecked(b, signal, unrealized) ==
    /\ botRm[b] # 0
    /\ Cardinality(gwOrders) < MaxOrders
    /\ LET ex == ExecuteSignal(rmObj[botRm[b]], signal, unrealized, Minute,
                               FALSE, botPaper[b])
       IN  /\ RiskStep(b, ex.obj,
                 [op |-> "execute_signal", bot |-> b, ret |-> ex.sent > 0])
           /\ gwOrders' =
                IF ex.sent > 0
                  THEN gwOrders \cup
                         {[via |-> "execute_signal", bot |-> b,
                           quantity |-> ex.sent, authorized |-> ex.checked,
                           sized |-> ex.sized]}
                  ELSE gwOrders
    /\ UNCHANGED <<today, minuteIdx, botSettings, botPaper, rmInstance, botRm,
                   rmUpdates>>
    /\ RiskFrame

\* app.py place_order: POST /api/trading/place-order goes straight to
\* projectx_service.place_order with the quantity of the request
ManualPlaceOrder(b, quantity) ==
    /\ Cardinality(gwOrders) < MaxOrders
    /\ gwOrders' = gwOrders \cup
           {[via |-> "manual", bot |-> b, quantity |-> quantity,
             authorized |-> FALSE, sized |-> 0]}
    /\ rmLast' = [op |-> "manual_place_order", bot |-> b, ret |-> TRUE]
    /\ UNCHANGED <<today, minuteIdx, botSettings, botPaper, rmInstance, rmObj,
                   botRm, rmUpdates, rmPeak, rmHaltDay, rmLossReached>>
    /\ RiskFrame

(***************************************************************************)
(* AuthManager.get_token                                                    *)
(***************************************************************************)
\* a member of the refresh cycle returned v (or raised)
CycleReturned(cyc, c, member, v) ==
    IF member
      THEN [cyc EXCEPT !.pending = @ \ {c}, !.rets = @ \cup {v}]
      ELSE cyc

\* the body of get_token once the lock is held: either the cached token is
\* returned at once, or a login request is sent and the caller awaits it
GetTokenLocked(c, force, member, cyc) ==
    IF CacheValid(force)
      THEN /\ authLast' = [caller |-> c, force |-> force,
                           tokenBefore |-> access_token,
                           expBefore |-> token_expires_at, at |-> authNow,
                           sent |-> FALSE, ret |-> access_token,
                           tokenAfter |-> access_token,
                           expAfter |-> token_expires_at]
           /\ authPc' = [authPc EXCEPT ![c] = "idle"]
           /\ authCtx' = [authCtx EXCEPT ![c] = NoCtx]
           /\ authLock' = ""
           /\ authCycle' = CycleReturned(cyc, c, member, access_token)
           /\ UNCHANGED <<access_token, token_expires_at, authLogins>>
      ELSE /\ authLock' = c
           /\ authPc' = [authPc EXCEPT ![c] = "login"]
           /\ authCtx' = [authCtx EXCEPT ![c] =
                            [force |-> force, tokenBefore |-> access_token,
                             expBefore |-> token_expires_at, at |-> authNow,
                             member |-> member]]
           /\ authLogins' = authLogins + 1
           /\ authCycle' = IF member THEN [cyc EXCEPT !.logins = @ + 1] ELSE cyc
           /\ UNCHANGED <<access_token, token_expires_at, authLast>>

\* a caller invokes get_token(force_refresh); async with self._lock is
\* entered at once when the lock is free and nobody waits for it
GetTokenCall(c, force) ==
    /\ authPc[c] = "idle"
    /\ authCalls < MaxAuthCalls
    /\ authCalls' = authCalls + 1
    /\ LET member == RefreshNeeded(force)
           cyc == IF ~member THEN authCycle
                  ELSE IF authCycle.pending = {}
                    THEN [pending |-> {c}, logins |-> 0, rets |-> {}]
                  ELSE [authCycle EXCEPT !.pending = @ \cup {c}]
       IN  IF authLock = "" /\ authQueue = <<>>
             THEN /\ GetTokenLocked(c, force, member, cyc)
                  /\ UNCHANGED authQueue
             ELSE /\ authPc' = [authPc EXCEPT ![c] = "waiting"]
                  /\ authQueue' = Append(authQueue, c)
                  /\ authCtx' = [authCtx EXCEPT ![c] =
                                   [NoCtx EXCEPT !.force = force,
                                                 !.member = member]]
                  /\ authCycle' = cyc
                  /\ UNCHANGED <<access_token, token_expires_at, authLock,
                                 authLogins, authLast>>
    /\ UNCHANGED <<authNow, authTicks, authValidate>>
    /\ AuthFrame

\* the lock was released and the first waiter enters get_token's body
GetTokenResume(c) ==
    /\ authPc[c] = "waiting"
    /\ authLock = ""
    /\ authQueue # <<>>
    /\ Head(authQueue) = c
    /\ authQueue' = Tail(authQueue)
    /\ GetTokenLocked(c, authCtx[c].force, authCtx[c].member, authCycle)
    /\ UNCHANGED <<authNow, authTicks, authValidate, authCalls>>
    /\ AuthFrame

\* self.access_token = token; self.token_expires_at = now + 24h; return
LoginComplete(c) ==
    /\ access_token' = authLogins
    /\ token_expires_at' = authNow + TokenLifetime
    /\ authLast' = [caller |-> c, force |-> authCtx[c].force,
                    tokenBefore |-> authCtx[c].tokenBefore,
                    expBefore |-> authCtx[c].expBefore, at |-> authCtx[c].at,
                    sent |-> TRUE, ret |-> authLogins,
                    tokenAfter |-> authLogins,
                    expAfter |-> authNow + TokenLifetime]
    /\ authCycle' = CycleReturned(authCycle, c, authCtx[c].member, authLogins)
    /\ authPc' = [authPc EXCEPT ![c] = "idle"]
    /\ authCtx' = [authCtx EXCEPT ![c] = NoCtx]
    /\ authLock' = ""

\* except Exception: raise RuntimeError(...) - nothing is cached
LoginFailed(c) ==
    /\ authLast' = [caller |-> c, force |-> authCtx[c].force,
                    tokenBefore |-> authCtx[c].tokenBefore,
                    expBefore |-> authCtx[c].expBefore, at |-> authCtx[c].at,
                    sent |-> TRUE, ret |-> Raised,
                    tokenAfter |-> access_token,
                    expAfter |-> token_expires_at]
    /\ authCycle' = CycleReturned(authCycle, c, authCtx[c].member, Raised)
    /\ authPc' = [authPc EXCEPT ![c] = "idle"]
    /\ authCtx' = [authCtx EXCEPT ![c] = NoCtx]
    /\ authLock' = ""
    /\ UNCHANGED <<access_token, token_expires_at>>

\* the login request (_login_with_api_key / _login_with_app_credentials) is
\* answered: with a token, or with a failure
LoginReturn(c, ok) ==
    /\ authPc[c] = "login"
    /\ IF ~ok THEN LoginFailed(c)
       ELSE IF authValidate
         THEN /\ authPc' = [authPc EXCEPT ![c] = "validate"]
              /\ UNCHANGED <<access_token, token_expires_at, authLock, authCtx,
                             authLast, authCycle>>
       ELSE LoginComplete(c)
    /\ UNCHANGED <<authNow, authTicks, authValidate, authQueue, authCalls,
                   authLogins>>
    /\ AuthFrame

\* _validate_token is answered
ValidateReturn(c, ok) ==
    /\ authPc[c] = "validate"
    /\ IF ok THEN LoginComplete(c) ELSE LoginFailed(c)
    /\ UNCHANGED <<authNow, authTicks, authValidate, authQueue, authCalls,
                   authLogins>>
    /\ AuthFrame

\* time passes; a waiter that can take the lock runs before the clock moves
AuthTick(d) ==
    /\ authTicks < MaxAuthTicks
    /\ ~(authLock = "" /\ authQueue # <<>>)
    /\ authTicks' = authTicks + 1
    /\ authNow' = authNow + d
    /\ UNCHANGED <<authValidate, access_token, token_expires_at, authLock,
                   authQueue, authPc, authCtx, authCalls, authLogins, authLast,
                   authCycle>>
    /\ AuthFrame

InitAuth ==
    /\ authNow = 0
    /\ authTicks = 0
    /\ authValidate \in BOOLEAN
    /\ access_token = 0
    /\ token_expires_at = 0
    /\ authLock = ""
    /\ authQueue = <<>>
    /\ authPc = [c \in AuthCallers |-> "idle"]
    /\ authCtx = [c \in AuthCallers |-> NoCtx]
    /\ authCalls = 0
    /\ authLogins = 0
    /\ authLast = [caller |-> "", force |-> FALSE, tokenBefore |-> 0,
                   expBefore |-> 0, at |-> 0, sent |-> FALSE, ret |-> 0,
                   tokenAfter |-> 0, expAfter |-> 0]
    /\ authCycle = [pending |-> {}, logins |-> 0, rets |-> {}]

(***************************************************************************)
(* _request of the gateway clients                                          *)
(***************************************************************************)
\* _request has returned res (or raised): the operation that called it
\* hands its own result to its caller
ReqFinish(op, res) ==
    /\ reqResult' = res
    /\ opResult' = DerivedResult(op, res)
    /\ reqPc' = "done"

\* a gateway operation calls _request, which runs up to the retry loop:
\* session check, rate slot, auth headers
ReqStart(client, op, session_ok, auth_ok, left) ==
    /\ reqPc = "idle"
    /\ client = "v1" => op = "_request"
    /\ reqClient' = client
    /\ reqOp' = op
    /\ IF ~session_ok
         THEN /\ ReqFinish(op, IF client = "v2"
                                 THEN [kind |-> "error", status_code |-> 503,
                                       body |-> ""]
                                 ELSE [kind |-> "raise", status_code |-> 0,
                                       body |-> ""])
              /\ UNCHANGED <<reqAcquired, reqHeaders, reqTokenLeft>>
       ELSE IF ~auth_ok
         THEN /\ ReqFinish(op, IF client = "v2"
                                 THEN [kind |-> "error", status_code |-> 401,
                                       body |-> ""]
                                 ELSE [kind |-> "raise", status_code |-> 0,
                                       body |-> ""])
              /\ reqAcquired' = reqAcquired + 1
              /\ reqHeaders' = reqHeaders + 1
              /\ UNCHANGED reqTokenLeft
       ELSE /\ reqPc' = "loop"
            /\ reqAcquired' = reqAcquired + 1
            /\ reqHeaders' = reqHeaders + 1
            /\ reqTokenLeft' = left
            /\ UNCHANGED <<reqResult, opResult>>
    /\ UNCHANGED <<reqReceived, reqAttempt, reqSent, reqSleeps>>
    /\ ReqFrame

\* one pass of for attempt in range(max_retries): the HTTP call, answered
\* with r, and what the loop does with the answer
ReqAttempt(r) ==
    /\ reqPc = "loop"
    /\ reqAttempt < MaxRetries
    /\ reqSent < MaxSent
    /\ reqReceived' = Append(reqReceived, r)
    /\ LET c == IF reqClient = "v2" THEN ClassifyV2(r, reqAttempt)
                ELSE ClassifyV1(r, reqAttempt)
       IN  /\ reqSent' = reqSent + 1
           /\ IF c.step = "continue"
                THEN /\ reqSleeps' = Append(reqSleeps, c.sleep)
                     /\ reqAttempt' = AttemptAfter(r, reqAttempt)
                     /\ UNCHANGED <<reqPc, reqResult, opResult>>
                ELSE /\ ReqFinish(reqOp, c.result)
                     /\ UNCHANGED <<reqSleeps, reqAttempt>>
    /\ UNCHANGED <<reqClient, reqOp, reqAcquired, reqHeaders, reqTokenLeft>>
    /\ ReqFrame

\* the for loop ran out: "Max retries exceeded"
ReqExhausted ==
    /\ reqPc = "loop"
    /\ reqAttempt = MaxRetries
    /\ ReqFinish(reqOp, IF reqClient = "v2"
                          THEN [kind |-> "error", status_code |-> 503,
                                body |-> ""]
                          ELSE [kind |-> "raise", status_code |-> 0,
                                body |-> ""])
    /\ UNCHANGED <<reqClient, reqOp, reqReceived, reqAttempt, reqSent,
                   reqSleeps, reqAcquired, reqHeaders, reqTokenLeft>>
    /\ ReqFrame

InitReq ==
    /\ reqPc = "idle"
    /\ reqClient = "v2"
    /\ reqReceived = <<>>
    /\ reqAttempt = 0
    /\ reqSent = 0
    /\ reqSleeps = <<>>
    /\ reqAcquired = 0
    /\ reqHeaders = 0
    /\ reqResult = NoResult
    /\ reqOp = "_request"
    /\ opResult = NoResult
    /\ reqTokenLeft = 0

(***************************************************************************)
(* WebSocketHandler                                                         *)
(***************************************************************************)
\* after the finally block: if self.running, sleep min(backoff, max); if
\* not, the while test fails and the task finishes
WsAfterCycle ==
    IF wsRunning
      THEN /\ wsLoopPc' = "sleep"
           /\ wsSleepLeft' = SleepTime(wsBackoff)
           /\ wsSleeps' = Append(wsSleeps, [time |-> SleepTime(wsBackoff),
                                           streak |-> wsStreak])
      ELSE /\ wsLoopPc' = "exited"
           /\ UNCHANGED <<wsSleepLeft, wsSleeps>>

\* while self.running: token = await self.auth_manager.get_token()
WsWhileTest ==
    IF wsRunning
      THEN /\ wsAttempts < WsMaxAttempts
           /\ wsLoopPc' = "token"
           /\ wsAttempts' = wsAttempts + 1
      ELSE /\ wsLoopPc' = "exited"
           /\ UNCHANGED wsAttempts

\* connect(account_id): keeps the account id given, or resolves it through
\* get_account_info when none is known (resolved is 0 when that fails), and
\* starts the loop task unless one is running
WsConnect(account_id, resolved) ==
    /\ wsLock = "none"
    /\ wsAccount' = IF account_id # 0 THEN account_id
                    ELSE IF wsAccount = 0 THEN resolved
                    ELSE wsAccount
    /\ UNCHANGED <<wsUp, wsSent>>
    /\ ~wsRunning
    /\ wsConnects < WsMaxConnects
    /\ wsRunning' = TRUE
    /\ wsEvent' = FALSE
    /\ wsLoopPc' = "start"
    /\ wsConnects' = wsConnects + 1
    /\ wsReturned' = FALSE
    /\ wsInterrupted' = "none"
    /\ UNCHANGED <<wsHandles, wsLock, wsBackoff, wsSleepLeft, wsSleeps,
                   wsStreak, wsAttempts, wsSubs>>
    /\ UNCHANGED wsClosedNow
    /\ WsFrame

\* disconnect() up to await self._task: clears the flag, sets the event
WsDisconnect ==
    /\ wsLock = "none"
    /\ wsRunning
    /\ wsLock' = "disconnect"
    /\ wsRunning' = FALSE
    /\ wsEvent' = TRUE
    /\ wsInterrupted' = wsLoopPc
    /\ UNCHANGED <<wsHandles, wsLoopPc, wsBackoff, wsSleepLeft, wsSleeps,
                   wsStreak, wsAttempts, wsSubs, wsConnects, wsReturned>>
    /\ UNCHANGED <<wsUp, wsSent, wsAccount>>
    /\ UNCHANGED wsClosedNow
    /\ WsFrame

\* disconnect() after await self._task: _stop_connections(), lock released
WsDisconnectReturn ==
    /\ wsLock = "disconnect"
    /\ TaskAwaited(wsLoopPc)
    /\ wsLock' = "none"
    /\ wsHandles' = {}
    /\ wsReturned' = TRUE
    /\ UNCHANGED <<wsRunning, wsEvent, wsLoopPc, wsBackoff, wsSleepLeft,
                   wsSleeps, wsStreak, wsAttempts, wsSubs, wsConnects,
                   wsInterrupted>>
    /\ UNCHANGED <<wsUp, wsSent, wsAccount>>
    /\ UNCHANGED wsClosedNow
    /\ WsFrame

\* the loop task starts: backoff = websocket_reconnect_delay, first while test
WsLoopStart ==
    /\ wsLoopPc = "start"
    /\ wsBackoff' = WsInitialDelay
    /\ wsStreak' = 0
    /\ WsWhileTest
    /\ UNCHANGED <<wsRunning, wsEvent, wsHandles, wsLock, wsSleepLeft,
                   wsSleeps, wsSubs, wsConnects, wsInterrupted, wsReturned>>
    /\ UNCHANGED <<wsUp, wsSent, wsAccount>>
    /\ UNCHANGED wsClosedNow
    /\ WsFrame

\* get_token() is answered: with a token, and _start_connections builds both
\* hubs and starts them; or by raising, and the cycle ends with no hub to stop
WsTokenResult(ok) ==
    /\ wsLoopPc = "token"
    /\ IF ok
         THEN /\ wsHandles' = {"user", "market"}
              /\ wsLoopPc' = "starting"
              /\ UNCHANGED <<wsSleepLeft, wsSleeps>>
         ELSE /\ WsAfterCycle
              /\ UNCHANGED wsHandles
    /\ UNCHANGED <<wsRunning, wsEvent, wsLock, wsBackoff, wsStreak, wsAttempts,
                   wsSubs, wsConnects, wsInterrupted, wsReturned>>
    /\ UNCHANGED <<wsUp, wsSent, wsAccount>>
    /\ wsClosedNow' = FALSE
    /\ WsFrame

\* both hub starts are over: on success _subscribe(), backoff reset and the
\* wait for the reconnect event (which returns at once when it is set); on
\* failure the finally block. _stop_connections drops both handles first.
WsStartResult(ok) ==
    /\ wsLoopPc = "starting"
    /\ IF ok
         THEN /\ wsSubs' = wsSubs + 1
              /\ wsBackoff' = WsInitialDelay
              /\ wsStreak' = 0
              /\ IF wsEvent
                   THEN /\ wsEvent' = FALSE
                        /\ wsHandles' = {}
                        /\ wsUp' = {}
                        /\ wsSent' = {}
                        /\ wsLoopPc' = "stopping"
                   ELSE /\ wsLoopPc' = "subscribed"
                        /\ wsUp' = Channels
                        /\ wsSent' = Subscriptions(wsAccount)
                        /\ UNCHANGED <<wsEvent, wsHandles>>
         ELSE /\ wsHandles' = {}
              /\ wsLoopPc' = "stopping"
              /\ UNCHANGED <<wsSubs, wsBackoff, wsStreak, wsEvent, wsUp, wsSent>>
    /\ UNCHANGED wsAccount
    /\ UNCHANGED <<wsRunning, wsLock, wsSleepLeft, wsSleeps, wsAttempts,
                   wsConnects, wsInterrupted, wsReturned>>
    /\ wsClosedNow' = (wsClosedNow /\ wsLoopPc' = "subscribed")
    /\ WsFrame

\* the reconnect event was set while SUBSCRIBED: clear it, finally block
WsEventWake ==
    /\ wsLoopPc = "subscribed"
    /\ wsEvent
    /\ wsEvent' = FALSE
    /\ wsHandles' = {}
    /\ wsLoopPc' = "stopping"
    /\ UNCHANGED <<wsRunning, wsLock, wsBackoff, wsSleepLeft, wsSleeps,
                   wsStreak, wsAttempts, wsSubs, wsConnects, wsInterrupted,
                   wsReturned>>
    /\ wsUp' = {}
    /\ wsSent' = {}
    /\ UNCHANGED wsAccount
    /\ wsClosedNow' = FALSE
    /\ WsFrame

\* both hub stops are over
WsStopDone ==
    /\ wsLoopPc = "stopping"
    /\ WsAfterCycle
    /\ UNCHANGED <<wsRunning, wsEvent, wsHandles, wsLock, wsBackoff, wsStreak,
                   wsAttempts, wsSubs, wsConnects, wsInterrupted, wsReturned>>
    /\ UNCHANGED <<wsUp, wsSent, wsAccount>>
    /\ UNCHANGED wsClosedNow
    /\ WsFrame

\* a second of asyncio.sleep(sleep_time) passes
WsSleepTick ==
    /\ wsLoopPc = "sleep"
    /\ wsSleepLeft > 0
    /\ wsSleepLeft' = wsSleepLeft - 1
    /\ UNCHANGED <<wsRunning, wsEvent, wsHandles, wsLock, wsLoopPc, wsBackoff,
                   wsSleeps, wsStreak, wsAttempts, wsSubs, wsConnects,
                   wsInterrupted, wsReturned>>
    /\ UNCHANGED <<wsUp, wsSent, wsAccount>>
    /\ UNCHANGED wsClosedNow
    /\ WsFrame

\* asyncio.sleep is over: backoff doubles, next while test
WsSleepOver ==
    /\ wsLoopPc = "sleep"
    /\ wsSleepLeft = 0
    /\ wsBackoff' = NextBackoff(wsBackoff)
    /\ wsStreak' = wsStreak + 1
    /\ WsWhileTest
    /\ UNCHANGED <<wsRunning, wsEvent, wsHandles, wsLock, wsSleepLeft,
                   wsSleeps, wsSubs, wsConnects, wsInterrupted, wsReturned>>
    /\ UNCHANGED <<wsUp, wsSent, wsAccount>>
    /\ UNCHANGED wsClosedNow
    /\ WsFrame

\* hub c closes: its on_close handler sets the reconnect event. While the
\* hubs are being started or stopped the close is that of a hub not yet, or
\* no longer, counted as open.
WsClose(c) ==
    /\ \/ wsLoopPc = "subscribed" /\ c \in wsUp
       \/ wsLoopPc \in {"starting", "stopping"} /\ ~wsEvent
    /\ wsEvent' = (wsEvent \/ HasCloseHandler(c))
    /\ wsUp' = wsUp \ {c}
    /\ UNCHANGED <<wsSent, wsAccount>>
    /\ UNCHANGED <<wsRunning, wsHandles, wsLock, wsLoopPc, wsBackoff,
                   wsSleepLeft, wsSleeps, wsStreak, wsAttempts, wsSubs,
                   wsConnects, wsInterrupted, wsReturned>>
    /\ wsClosedNow' = (wsClosedNow \/ wsLoopPc \in {"starting", "subscribed"})
    /\ WsFrame

\* register_callback(event_type, callback), at startup
FeedRegister ==
    /\ fdArrived = 0
    /\ fdCallbacks < FdMaxCallbacks
    /\ fdCallbacks' = fdCallbacks + 1
    /\ UNCHANGED <<fdArrived, fdReady, fdTask, fdLog>>
    /\ FeedFrame

\* the hub thread calls handler(args) for the next event of the channel:
\* run_coroutine_threadsafe(self._emit_event(event_type, payload), loop)
FeedArrive ==
    /\ fdArrived < FdMaxEvents
    /\ fdArrived' = fdArrived + 1
    /\ fdReady' = Append(fdReady, fdArrived + 1)
    /\ fdTask' = [fdTask EXCEPT ![fdArrived + 1] = [pc |-> "ready", idx |-> 1]]
    /\ UNCHANGED <<fdCallbacks, fdLog>>
    /\ FeedFrame

\* the invocations callback[from](e) .. callback[to](e), in order
RECURSIVE Invocations(_, _, _)
Invocations(e, from, to) ==
    IF from > to THEN <<>>
    ELSE <<[cb |-> from, e |-> e]>> \o Invocations(e, from + 1, to)

\* the event loop runs the first runnable _emit_event task until it suspends:
\* it calls the callbacks in list order and awaits the coroutine ones;
\* stopAt is the callback whose await suspends (none when past the list)
FeedRun(stopAt) ==
    /\ fdReady # <<>>
    /\ LET e == Head(fdReady)
           t == fdTask[e]
           \* a task resumed inside callback idx goes on with the next one
           first == IF t.pc = "resumed" THEN t.idx + 1 ELSE t.idx
       IN  /\ stopAt \in first..(fdCallbacks + 1)
           /\ fdLog' = fdLog \o Invocations(e, first, Min2(stopAt, fdCallbacks))
           /\ fdTask' = [fdTask EXCEPT ![e] =
                            IF stopAt <= fdCallbacks
                              THEN [pc |-> "suspended", idx |-> stopAt]
                              ELSE [pc |-> "done", idx |-> fdCallbacks]]
    /\ fdReady' = Tail(fdReady)
    /\ UNCHANGED <<fdCallbacks, fdArrived>>
    /\ FeedFrame

\* what a suspended callback awaits is over: its task is runnable again
FeedWake(e) ==
    /\ fdTask[e].pc = "suspended"
    /\ fdTask' = [fdTask EXCEPT ![e].pc = "resumed"]
    /\ fdReady' = Append(fdReady, e)
    /\ UNCHANGED <<fdCallbacks, fdArrived, fdLog>>
    /\ FeedFrame

\* a trade_update event with a realized fill of account A is emitted by one
\* of the handlers: TradingBot.ws_handler has no callback to call; the
\* server's forwarder broadcasts it and creates a _refresh_positions_pnl task
FillDelivered(feed, pnl) ==
    /\ botRm["A"] # 0
    /\ Len(flFills) < MaxFills
    /\ flFills' = Append(flFills, pnl)
    /\ IF feed = "server"
         THEN /\ flBroadcasts' = flBroadcasts + 1
              /\ flRefreshes' = flRefreshes + 1
         ELSE UNCHANGED <<flBroadcasts, flRefreshes>>
    /\ FillFrame

\* _refresh_positions_pnl: reads the positions with their realized P&L from
\* the gateway and broadcasts them to the dashboard sockets
RefreshPositionsPnl ==
    /\ flRefreshes > 0
    /\ flRefreshes' = flRefreshes - 1
    /\ flBroadcasts' = flBroadcasts + 1
    /\ UNCHANGED flFills
    /\ FillFrame

\* one V2 _request with nobody else inside get_token: get_headers() hands
\* out the cached token or logs in, the retry loop sends the request, and
\* the Result is returned
SessionRequest(outcome, answers) ==
    /\ Len(snLog) < MaxSessionRequests
    /\ authLock = "" /\ authQueue = <<>>
    /\ IF CacheValid(FALSE)
         THEN LET run == RunV2(answers, 0) IN
              /\ snLog' = Append(snLog, [token |-> access_token, login |-> FALSE,
                                         outcome |-> "",
                                         cachedBefore |-> access_token,
                                         expBefore |-> token_expires_at,
                                         cachedAfter |-> access_token,
                                         expAfter |-> token_expires_at,
                                         seen |-> run.seen,
                                         result |-> run.result])
              /\ UNCHANGED <<access_token, token_expires_at, authLogins>>
         ELSE IF LoginSucceeds(outcome, authValidate)
           THEN LET run == RunV2(answers, 0) IN
                /\ access_token' = authLogins + 1
                /\ token_expires_at' = authNow + TokenLifetime
                /\ authLogins' = authLogins + 1
                /\ snLog' = Append(snLog, [token |-> authLogins + 1,
                                           login |-> TRUE,
                                           outcome |-> outcome,
                                           cachedBefore |-> access_token,
                                           expBefore |-> token_expires_at,
                                           cachedAfter |-> authLogins + 1,
                                           expAfter |-> authNow + TokenLifetime,
                                           seen |-> run.seen,
                                           result |-> run.result])
           \* get_token raised: auth_error, nothing is sent
           ELSE /\ authLogins' = authLogins + 1
                /\ snLog' = Append(snLog, [token |-> 0, login |-> TRUE,
                                           outcome |-> outcome,
                                           cachedBefore |-> access_token,
                                           expBefore |-> token_expires_at,
                                           cachedAfter |-> access_token,
                                           expAfter |-> token_expires_at,
                                           seen |-> <<>>,
                                           result |-> [kind |-> "error",
                                                       status_code |-> 401,
                                                       body |-> ""]])
                /\ UNCHANGED <<access_token, token_expires_at>>
    /\ UNCHANGED <<authNow, authTicks, authValidate, authLock, authQueue,
                   authPc, authCtx, authCalls, authLast, authCycle>>
    /\ UNCHANGED <<rlVars, riskVars, reqVars, szVars, wsVars, fdVars, emVars,
                   flVars, amVars, ptVars, omVars>>

\* one call of _emit_event(event_type, payload) with n callbacks registered
\* for the event type: each is called with the prepared payload
EmitEvent(event_type, payload, n) ==
    /\ ~emIn.called
    /\ emIn' = [called |-> TRUE, type |-> event_type, payload |-> payload,
                callbacks |-> n]
    /\ emOut' = [i \in 1..n |-> PrepareEventPayload(event_type, payload)]
    /\ EmitFrame

\* one call of RiskManager.calculate_position_size, which reads the governor
\* and changes nothing: one call per behaviour shows all it can return
SizeCall(maxp, minp, total, daily, signal, unrealized) ==
    LET o == SizingGovernor(maxp, minp, total, daily) IN
      /\ ~szIn.called
      /\ szIn' = [called |-> TRUE, o |-> o, signal |-> signal,
                  unrealized |-> unrealized]
      /\ szOut' = CalculatePositionSize(o, signal, unrealized)
      /\ SizingFrame

InitRisk ==
    /\ today = 1
    /\ minuteIdx = 1
    /\ botSettings \in {f \in [Bots -> {Profile50K, Profile100K, ProfileCustom}] :
                          f["A"] # Profile100K /\ f["B"] = Profile100K}
    /\ botPaper \in {f \in [Bots -> BOOLEAN] : ~f["B"]}
    /\ rmInstance = 0
    /\ rmObj = <<>>
    /\ botRm = [b \in Bots |-> 0]
    /\ rmLast = [op |-> "init", bot |-> "", ret |-> FALSE]
    /\ rmUpdates = 0
    /\ rmPeak = <<>>
    /\ rmHaltDay = <<>>
    /\ rmLossReached = <<>>
    /\ gwOrders = {}

(***************************************************************************)
(* Specifications                                                           *)
(***************************************************************************)
vars == <<rlVars, riskVars, authVars, reqVars, szVars, wsVars, fdVars, emVars, flVars, snVars, amVars, ptVars, omVars>>

Init ==
    /\ InitRL /\ InitRisk /\ InitAuth /\ InitReq /\ InitSizing
    /\ InitWs /\ InitFeed /\ InitEmit /\ InitFills /\ InitSession
    /\ InitAm /\ InitPt /\ InitOm

\* the governor alone: paper_trading_mode and topstepx_validate_tokens keep
\* their defaults, which no operation of the governor reads
InitGovernor == Init /\ botPaper["A"] /\ authValidate

\* the order paths: paper and live accounts, token validation at its default
InitOrders == Init /\ authValidate

\* the credential authority alone: token validation on or off, the account
\* of bot A at its defaults
InitCredentials == Init /\ botPaper["A"] /\ botSettings["A"] = Profile50K

\* the gateway client alone: every setting at its default
InitDefaults == InitCredentials /\ authValidate

\* the rate limiter under concurrent callers
NextRL ==
    \/ \E c \in RLCallers : RLEnter(c) /\ RLFrame
    \/ \E c \in RLCallers : RLWake(c) /\ RLFrame
    \/ \E c \in RLCallers : RLAppend(c) /\ RLFrame
    \/ RLTick /\ RLFrame

SpecRL == InitDefaults /\ [][NextRL]_vars

\* one account bot and its risk governor
Next ==
    \/ Construct("A")
    \/ \E d \in PnlDeltas : UpdatePnl("A", d)
    \/ CanTradeCall("A")
    \/ \E s \in Signals, u \in UnrealizedPnls : CheckTradeRiskCall("A", s, u)
    \/ ResetDailyTracking("A")
    \/ LiquidateAllPositions("A")
    \/ Tick

Spec == InitGovernor /\ [][Next]_vars

\* two account bots constructed in one process
NextAccounts ==
    \/ \E b \in Bots : Construct(b)
    \/ \E b \in Bots, d \in IsolationDeltas : UpdatePnl(b, d)
    \/ \E b \in Bots : CanTradeCall(b)
    \/ \E b \in Bots : ResetDailyTracking(b)
    \/ Tick

SpecAccounts == InitGovernor /\ [][NextAccounts]_vars

\* the paths that lead to the gateway's place_order
NextOrders ==
    \/ Construct("A")
    \/ \E d \in IsolationDeltas : UpdatePnl("A", d)
    \/ Tick
    \/ \E s \in Signals, u \in UnrealizedPnls : TradingLoopSignal("A", s, u)
    \/ \E s \in Signals, u \in UnrealizedPnls : ExecuteSignalChecked("A", s, u)
    \/ \E q \in ManualQuantities : ManualPlaceOrder("A", q)

SpecOrders == InitOrders /\ [][NextOrders]_vars

\* calls of calculate_position_size
NextSizing ==
    \E maxp \in MaxPositionSizes, minp \in MinPositionSizes,
       total \in SizingTotals, daily \in SizingDailies,
       signal \in SizingSignals, unrealized \in UnrealizedPnls :
       SizeCall(maxp, minp, total, daily, signal, unrealized)

SpecSizing == InitDefaults /\ [][NextSizing]_vars

\* connect(), disconnect() and the reconnect loop of one WebSocketHandler
NextWs ==
    \/ \E account_id, resolved \in AccountIds : WsConnect(account_id, resolved)
    \/ WsDisconnect
    \/ WsDisconnectReturn
    \/ WsLoopStart
    \/ \E ok \in BOOLEAN : WsTokenResult(ok)
    \/ \E ok \in BOOLEAN : WsStartResult(ok)
    \/ WsEventWake
    \/ WsStopDone
    \/ WsSleepTick
    \/ WsSleepOver
    \/ \E c \in Channels : WsClose(c)

SpecWs == InitDefaults /\ [][NextWs]_vars

\* the steps of the loop task: each of its awaits returns in the end
WsLoopStep ==
    \/ WsLoopStart
    \/ \E ok \in BOOLEAN : WsTokenResult(ok)
    \/ \E ok \in BOOLEAN : WsStartResult(ok)
    \/ WsEventWake
    \/ WsStopDone
    \/ WsSleepTick
    \/ WsSleepOver

SpecWsLive == SpecWs /\ WF_vars(WsLoopStep)

\* the events of one channel on their way to the callbacks
NextFeed ==
    \/ FeedRegister
    \/ FeedArrive
    \/ \E stopAt \in 1..(FdMaxCallbacks + 1) : FeedRun(stopAt)
    \/ \E e \in FdEvents : FeedWake(e)

SpecFeed == InitDefaults /\ [][NextFeed]_vars

\* what the gateway and the feed do with realized fills
NextFills ==
    \/ Construct("A")
    \/ CanTradeCall("A")
    \/ Tick
    \/ \E feed \in FillFeeds, pnl \in FillPnls : FillDelivered(feed, pnl)
    \/ RefreshPositionsPnl

SpecFills == InitDefaults /\ [][NextFills]_vars

\* every step that can be taken is taken in the end
SpecFillsLive == SpecFills /\ WF_vars(NextFills)

\* one client's requests and the clock
NextSession ==
    \/ \E outcome \in LoginOutcomes,
          answers \in [1..MaxRetries -> SessionResponses] :
          SessionRequest(outcome, answers)
    \/ \E d \in AuthJumps : AuthTick(d)

SpecSession == InitCredentials /\ [][NextSession]_vars

\* start_account: returns at once for a registered account; else builds a
\* TradingBot (running = False), schedules its start task and registers it
StartAccount(a) ==
    /\ IF a \in amBots
         THEN UNCHANGED <<amBots, botRunning, botTask>>
         ELSE /\ amBots' = amBots \cup {a}
              /\ botRunning' = [botRunning EXCEPT ![a] = FALSE]
              /\ botTask' = [botTask EXCEPT ![a] = "scheduled"]
    /\ amStatus' = [amStatus EXCEPT ![a] = "none"]
    /\ amHealth' = [amHealth EXCEPT ![a] = "none"]
    /\ AmFrame

\* the start task runs: TradingBot.start sets self.running = True and then
\* evaluates self.auth_manager.login(), which AuthManager does not define:
\* AttributeError, caught and logged by start_bot_with_error_handling
BotStart(a) ==
    /\ botTask[a] = "scheduled"
    /\ botRunning' = [botRunning EXCEPT ![a] = TRUE]
    /\ botTask' = [botTask EXCEPT ![a] = "raised"]
    /\ amStatus' = [amStatus EXCEPT ![a] = "none"]
    /\ amHealth' = [amHealth EXCEPT ![a] = "none"]
    /\ UNCHANGED amBots
    /\ AmFrame

\* stop_account: returns at once for an unregistered account; else bot.stop()
\* (running = False) and del self.bots[account_id]; a start task still
\* scheduled then runs on a bot the registry no longer holds
StopAccount(a) ==
    /\ IF a \in amBots
         THEN /\ amBots' = amBots \ {a}
              /\ botRunning' = [botRunning EXCEPT ![a] = FALSE]
              /\ botTask' = [botTask EXCEPT ![a] = "none"]
         ELSE UNCHANGED <<amBots, botRunning, botTask>>
    /\ amStatus' = [amStatus EXCEPT ![a] = "none"]
    /\ amHealth' = [amHealth EXCEPT ![a] = "none"]
    /\ AmFrame

GetAccountStatus(a) ==
    /\ amStatus' = [amStatus EXCEPT ![a] =
                       Report(StatusRunning(a \in amBots, botRunning[a]))]
    /\ UNCHANGED <<amBots, botRunning, botTask, amHealth>>
    /\ AmFrame

GetBotHealth(a) ==
    /\ amHealth' = [amHealth EXCEPT ![a] =
                       Report(HealthRunning(a \in amBots, botRunning[a]))]
    /\ UNCHANGED <<amBots, botRunning, botTask, amStatus>>
    /\ AmFrame

\* the account registry and its bots
NextAm ==
    \/ \E a \in Bots : StartAccount(a)
    \/ \E a \in Bots : BotStart(a)
    \/ \E a \in Bots : StopAccount(a)
    \/ \E a \in Bots : GetAccountStatus(a)
    \/ \E a \in Bots : GetBotHealth(a)

SpecAm == InitDefaults /\ [][NextAm]_vars

\* one sync_positions() while the gateway holds the positions open and
\* answers the HTTP attempts of /Position/searchOpen with answers
SyncPositions(open, answers) ==
    /\ ptSyncs < MaxSyncs
    /\ ptSyncs' = ptSyncs + 1
    /\ LET res == RunV1(answers, 0) IN
         /\ ptPositions' = SyncedPositions(ptPositions, GetOpenPositions(res, open))
         /\ ptLast' = [called |-> TRUE, result |-> res, open |-> open,
                       before |-> ptPositions]
    /\ PtFrame

\* the position tracker and its gateway
NextPt ==
    \E open \in SUBSET PositionIds, answers \in [1..MaxRetries -> PositionResponses] :
        SyncPositions(open, answers)

SpecPt == InitDefaults /\ [][NextPt]_vars

\* OrderManager.execute_signal(signal, skip_risk_check): in paper mode the
\* order is simulated and stored as FILLED; in live mode place_order is
\* invoked and the order stored when the answer carries an order id
OmExecuteSignal(b, signal, unrealized, skip_risk_check, answered) ==
    /\ botRm[b] # 0
    /\ Len(omOrders) < MaxLocalOrders
    /\ Cardinality(gwOrders) < MaxOrders
    /\ LET ex == ExecuteSignal(rmObj[botRm[b]], signal, unrealized, Minute,
                               skip_risk_check, botPaper[b])
           passed == (skip_risk_check \/ ex.checked) /\ ex.sized > 0
       IN  /\ RiskStep(b, ex.obj,
                 [op |-> "execute_signal", bot |-> b, ret |-> passed])
           /\ gwOrders' =
                IF ex.sent > 0
                  THEN gwOrders \cup
                         {[via |-> "execute_signal", bot |-> b,
                           quantity |-> ex.sent, authorized |-> ex.checked,
                           sized |-> ex.sized]}
                  ELSE gwOrders
           /\ omCalls' = IF passed THEN omCalls \cup GatewayCall(botPaper[b], "place_order")
                         ELSE omCalls
           /\ omOrders' =
                IF passed /\ botPaper[b]
                  THEN Append(omOrders, [status |-> "FILLED", quantity |-> ex.sized])
                ELSE IF passed /\ answered
                  THEN Append(omOrders, [status |-> "PENDING", quantity |-> ex.sized])
                ELSE omOrders
           /\ omDone' = IF passed THEN omDone \cup {"execute_signal"} ELSE omDone
    /\ UNCHANGED <<today, minuteIdx, botSettings, botPaper, rmInstance, botRm,
                   rmUpdates>>
    /\ UNCHANGED <<rlVars, authVars, reqVars, szVars, wsVars, fdVars, emVars,
                   flVars, snVars, amVars, ptVars>>

\* OrderManager.cancel_order(order_id) for a stored order: the gateway is
\* asked unless in paper mode (answered is FALSE when that call raises), then
\* the status becomes CANCELLED
OmCancelOrder(b, i, answered) ==
    /\ i \in DOMAIN omOrders
    /\ omCalls' = omCalls \cup GatewayCall(botPaper[b], "cancel_order")
    /\ omOrders' = IF botPaper[b] \/ answered
                     THEN [omOrders EXCEPT ![i].status = "CANCELLED"]
                   ELSE omOrders
    /\ omDone' = omDone \cup {"cancel_order"}
    /\ OmFrame

\* OrderManager.modify_order(order_id, quantity) for a stored order
OmModifyOrder(b, i, quantity, answered) ==
    /\ i \in DOMAIN omOrders
    /\ omCalls' = omCalls \cup GatewayCall(botPaper[b], "modify_order")
    /\ omOrders' = IF botPaper[b] \/ answered
                     THEN [omOrders EXCEPT ![i].quantity = quantity]
                   ELSE omOrders
    /\ omDone' = omDone \cup {"modify_order"}
    /\ OmFrame

\* OrderManager.close_all_positions while position_tracker.get_open_positions
\* returns positions: each is logged in paper mode and closed at the gateway
\* otherwise; the stored orders are not touched
OmCloseAllPositions(b, positions) ==
    /\ omCalls' = IF positions = {} THEN omCalls
                  ELSE omCalls \cup GatewayCall(botPaper[b], "close_position")
    /\ omDone' = IF positions = {} THEN omDone
                 ELSE omDone \cup {"close_all_positions"}
    /\ UNCHANGED omOrders
    /\ OmFrame

\* the order manager of one bot
NextOm ==
    \/ Construct("A")
    \/ \E s \in Signals, u \in UnrealizedPnls, skip, answered \in BOOLEAN :
          OmExecuteSignal("A", s, u, skip, answered)
    \/ \E i \in 1..MaxLocalOrders, answered \in BOOLEAN :
          OmCancelOrder("A", i, answered)
    \/ \E i \in 1..MaxLocalOrders, q \in ModifyQuantities, answered \in BOOLEAN :
          OmModifyOrder("A", i, q, answered)
    \/ \E positions \in SUBSET PositionIds : OmCloseAllPositions("A", positions)

SpecOm == InitOrders /\ [][NextOm]_vars

\* one event through _emit_event
NextEmit ==
    \E event_type \in EventTypes, payload \in Payloads, n \in 1..FdMaxCallbacks :
        EmitEvent(event_type, payload, n)

SpecEmit == InitDefaults /\ [][NextEmit]_vars

\* concurrent callers of one AuthManager
NextAuth ==
    \/ \E c \in AuthCallers, force \in BOOLEAN : GetTokenCall(c, force)
    \/ \E c \in AuthCallers : GetTokenResume(c)
    \/ \E c \in AuthCallers, ok \in BOOLEAN : LoginReturn(c, ok)
    \/ \E c \in AuthCallers, ok \in BOOLEAN : ValidateReturn(c, ok)
    \/ \E d \in AuthJumps : AuthTick(d)

SpecAuth == InitCredentials /\ [][NextAuth]_vars

\* one _request call; the gateway answers every attempt as it likes
NextReq ==
    \/ \E client \in {"v1", "v2"}, op \in Operations, session_ok \in BOOLEAN,
          auth_ok \in BOOLEAN, left \in TokenLefts :
          ReqStart(client, op, session_ok, auth_ok, left)
    \/ \E r \in Responses : ReqAttempt(r)
    \/ ReqExhausted

SpecReq == InitDefaults /\ [][NextReq]_vars

\* the same call on an event loop that keeps running: a coroutine that can
\* take its next step (the HTTP answer arrived, the sleep is over) takes it
SpecReqLive == SpecReq /\ WF_vars(NextReq)

(***************************************************************************)
(* Claims                                                                   *)
(***************************************************************************)
\* the admissions that lie in the window of length TimeWindow ending at t
AdmissionsInWindow(t) ==
    {i \in DOMAIN rlAdmitted : rlAdmitted[i] > t - TimeWindow /\ rlAdmitted[i] <= t}

\* C1: no window of length W contains more than N admissions, for every
\* sequence and interleaving of acquire() calls on one limiter
C1_WindowNeverExceeded ==
    \A t \in 0..MaxClock : Cardinality(AdmissionsInWindow(t)) <= MaxRequests

\* C2: every constructed bot's governor works on that bot's own settings, and
\* an operation applied through one bot leaves the risk state of every other
\* bot's governor unchanged
C2_AccountsIsolated ==
    [][\A b \in Bots :
         (botRm[b] # 0 /\ botRm'[b] # 0) =>
            /\ rmObj'[botRm'[b]].settings = botSettings[b]
            /\ (rmLast'.bot # b => rmObj'[botRm'[b]] = rmObj[botRm[b]])]_vars

\* C3: every order that reached the gateway's place_order was authorized by a
\* check_trade_risk that returned true for it, and carries the governor's
\* sized quantity
C3_EveryOrderAuthorized ==
    \A o \in gwOrders : o.authorized /\ o.quantity = o.sized

\* C4: once update_pnl has brought the day's realized loss to 95% of
\* daily_loss_limit, every later can_trade() returns false until
\* reset_daily_tracking starts a new day
C4_LossHaltsUntilReset ==
    (rmLast.op = "can_trade" /\ rmLossReached[botRm[rmLast.bot]]) => ~rmLast.ret

\* C5: trading_halted goes from true to false only in a
\* reset_daily_tracking that runs on a date later than the date on which the
\* halt was latched
C5_HaltClearsOnlyOnLaterDate ==
    [][\A i \in DOMAIN rmObj :
         (rmObj[i].trading_halted /\ ~rmObj'[i].trading_halted) =>
            (rmLast'.op = "reset_daily_tracking" /\ today > rmHaltDay[i])]_vars

\* C6: high_water_mark equals the largest account_size + total_pnl of all
\* states reached so far, the initial state included (so it never decreases)
C6_HighWaterMarkIsPeak ==
    \A i \in DOMAIN rmObj : rmObj[i].high_water_mark = rmPeak[i]

\* C6 witness: the balance rose above the account size and fell back below
\* the high-water mark
C6_Witness ==
    \E i \in DOMAIN rmObj :
        /\ rmObj[i].high_water_mark > rmObj[i].settings.account_size
        /\ Balance(rmObj[i]) < rmObj[i].high_water_mark
        /\ rmLast.op = "update_pnl"

\* C7: at most one login is in flight at any time; the callers that invoke
\* get_token while a refresh is needed and while one another's calls are
\* pending share one login request and, once all of them have returned, hold
\* the token of that login (cycles in which a login failed are left aside)
C7_SingleLoginPerCycle ==
    /\ Cardinality({c \in AuthCallers : authPc[c] \in {"login", "validate"}}) <= 1
    /\ Raised \notin authCycle.rets =>
          /\ authCycle.logins <= 1
          /\ (authCycle.pending = {} /\ authCycle.rets # {})
                => (authCycle.logins = 1 /\ Cardinality(authCycle.rets) = 1)

\* C8: a get_token call sends a login request exactly when force_refresh is
\* set, no token is cached, or the time of its check is at or past the cached
\* token's expiry minus five minutes; a call that sends none returns the
\* cached token and leaves token and expiry as they were
C8_LoginIffRefreshNeeded ==
    authLast.caller # "" =>
       /\ authLast.sent <=>
             \/ authLast.force
             \/ authLast.tokenBefore = 0
             \/ authLast.at >= authLast.expBefore - RefreshBuffer
       /\ ~authLast.sent =>
             /\ authLast.ret = authLast.tokenBefore
             /\ authLast.tokenAfter = authLast.tokenBefore
             /\ authLast.expAfter = authLast.expBefore

\* C8 witness: an unforced call whose check fell exactly on expiry minus five
\* minutes logged in again and got a new token
C8_Witness ==
    /\ authLast.caller # ""
    /\ authLast.sent
    /\ ~authLast.force
    /\ authLast.tokenBefore # 0
    /\ authLast.at = authLast.expBefore - RefreshBuffer
    /\ authLast.ret > authLast.tokenBefore

\* a 429 answer whose Retry-After header is absent or an integer
IsThrottled(r) == r.status = 429 /\ r.retry_after # -2

\* an answer that the pipeline retries with backoff
IsRetryableFailure(r) ==
    r.status >= 500 \/ r.body = "client_error" \/ r.body = "exception"

\* C9: after a 429 the pipeline sleeps Retry-After (60 s when absent) and
\* tries again without using up max_retries: it never returns straight
\* after a 429, a 2xx JSON answer that follows any number of them is
\* returned as Success, and it gives up on a retryable failure only after
\* max_retries answers other than 429
C9_ThrottledRetriesAreFree ==
    /\ \A i \in DOMAIN reqSleeps :
          IsThrottled(reqReceived[i]) =>
             reqSleeps[i] = IF reqReceived[i].retry_after = -1
                              THEN DefaultRetryAfter
                              ELSE reqReceived[i].retry_after
    /\ (reqPc = "done" /\ reqReceived # <<>>) =>
          LET last == reqReceived[Len(reqReceived)]
              others == {i \in DOMAIN reqReceived : ~IsThrottled(reqReceived[i])}
          IN  /\ ~IsThrottled(last)
              /\ (last.status = 200 /\ last.body = "json")
                    => reqResult.kind = "success"
              /\ IsRetryableFailure(last) => Cardinality(others) = MaxRetries

\* C10: the V2 pipeline keeps trying through k < max_retries answers of
\* status 500 or above, and a 2xx JSON answer after them is returned as
\* Success after exactly k+1 attempts and k sleeps of 1, 2, ..., 2^(k-1) s
C10_BackoffThenSuccess ==
    (reqClient = "v2" /\ reqPc = "done" /\ reqReceived # <<>>) =>
       LET n == Len(reqReceived)
           last == reqReceived[n]
       IN  /\ (\A i \in 1..n : reqReceived[i].status >= 500) => n = MaxRetries
           /\ (/\ n - 1 < MaxRetries
               /\ \A i \in 1..(n - 1) : reqReceived[i].status >= 500
               /\ last.status = 200 /\ last.body = "json")
                 => /\ reqResult = [kind |-> "success", status_code |-> 200,
                                    body |-> "json"]
                    /\ reqSent = n
                    /\ Len(reqSleeps) = n - 1
                    /\ \A i \in 1..(n - 1) : reqSleeps[i] = Pow2(i - 1)

\* C10 witness: the answers 500, 500, 200 gave a Success on the third attempt
C10_Witness ==
    /\ reqClient = "v2"
    /\ reqPc = "done"
    /\ Len(reqReceived) = 3
    /\ reqReceived[1].status = 500
    /\ reqReceived[2].status = 500
    /\ reqReceived[3].status = 200
    /\ reqReceived[3].body = "json"
    /\ reqResult.kind = "success"
    /\ reqSleeps = <<1, 2>>

\* C11: when every answer has a status of 500 or above, the V2 pipeline makes
\* exactly max_retries attempts, sleeps between them only (max_retries - 1
\* sleeps, none after the last attempt), returns an Error with status_code
\* 502, and the operation that called it returns that Error unchanged
C11_ServerErrorsExhaust ==
    (/\ reqClient = "v2"
     /\ reqReceived # <<>>
     /\ \A i \in DOMAIN reqReceived : reqReceived[i].status >= 500) =>
       /\ reqSent <= MaxRetries
       /\ reqPc = "loop" => (reqSent < MaxRetries /\ Len(reqSleeps) = reqSent)
       /\ reqPc = "done" =>
             /\ reqSent = MaxRetries
             /\ Len(reqSleeps) = MaxRetries - 1
             /\ reqResult = [kind |-> "error", status_code |-> 502, body |-> ""]
             /\ opResult = reqResult

\* C11 witness: list_available_contracts got 500, 503, 500 and returned the
\* Error 502 of _request
C11_Witness ==
    /\ reqClient = "v2"
    /\ reqOp = "list_available_contracts"
    /\ reqPc = "done"
    /\ Len(reqReceived) = MaxRetries
    /\ \A i \in DOMAIN reqReceived : reqReceived[i].status >= 500
    /\ \E i \in DOMAIN reqReceived : reqReceived[i].status = 503
    /\ opResult.kind = "error"
    /\ opResult.status_code = 502
    /\ reqSleeps = <<1, 2>>

\* C12: an answer with status 400..499 other than 429 is never retried: the
\* V2 pipeline returns at once an Error whose status_code is the answer's
\* status, built from the structured error body when that is a JSON object
\* and from the raw text otherwise; when it is the first answer, exactly one
\* attempt was made and nothing was slept
C12_ClientErrorsNotRetried ==
    (reqClient = "v2" /\ reqReceived # <<>>) =>
       LET n == Len(reqReceived)
           last == reqReceived[n]
       IN  (last.status \in (400..499) \ {429}) =>
              /\ reqPc = "done"
              /\ reqSent = n
              /\ Len(reqSleeps) = n - 1
              /\ reqResult.kind = "error"
              /\ reqResult.status_code = last.status
              /\ reqResult.body = IF last.body \in {"json", "json_fail"}
                                    THEN "structured" ELSE "raw"
              /\ \A i \in 1..(n - 1) :
                    reqReceived[i].status \notin (400..499) \ {429}

\* C12 witness: a single 404 with a body that is not JSON came back as
\* Error 404 built from the raw text
C12_Witness ==
    /\ reqClient = "v2"
    /\ reqPc = "done"
    /\ Len(reqReceived) = 1
    /\ reqReceived[1].status = 404
    /\ reqSent = 1
    /\ reqSleeps = <<>>
    /\ reqResult = [kind |-> "error", status_code |-> 404, body |-> "raw"]

\* C13: every V2 gateway operation returns a Success or an Error, whatever
\* the session, the authentication, the transport and the answers' status
\* and body shape; none raises to its caller
C13_NoExceptionCrosses ==
    (reqClient = "v2" /\ reqPc = "done") =>
       /\ reqResult.kind \in {"success", "error"}
       /\ opResult.kind \in {"success", "error"}

\* the seconds slept before the i-th HTTP attempt of the call
RECURSIVE SleptBefore(_)
SleptBefore(i) == IF i <= 1 THEN 0 ELSE SleptBefore(i - 1) + reqSleeps[i - 1]

\* C18: every HTTP attempt carries an auth header fetched for that attempt
\* (one get_headers() call per attempt), so no attempt is sent with a token
\* that is at or past its expiry minus the five-minute buffer
C18_FreshHeaderPerAttempt ==
    /\ reqSent <= reqHeaders
    /\ \A i \in 1..reqSent : SleptBefore(i) < reqTokenLeft

\* C19: _request terminates whatever the gateway answers, 429 included: it
\* never makes more than max_retries HTTP attempts, never sleeps more than
\* max_retries times, and returns (or raises) in the end
C19_RequestTerminates ==
    /\ [](reqSent <= MaxRetries /\ Len(reqSleeps) <= MaxRetries)
    /\ <>(reqPc = "done")

\* C19 witness: the gateway answered 429 to every attempt and the call ended
\* after max_retries attempts and as many sleeps
C19_Witness ==
    /\ reqPc = "done"
    /\ reqSent = MaxRetries
    /\ Len(reqSleeps) = MaxRetries
    /\ \A i \in DOMAIN reqReceived : reqReceived[i].status = 429

\* C17: whenever min_position_size exceeds neither the scaling-plan maximum
\* for the balance nor max_position_size, calculate_position_size returns q
\* with 0 <= q <= min(scaling-plan maximum, max_position_size); entry 4000,
\* stop 3990, tick value 5, balance 50000 and 1.5% risk give 5
C17_PositionSizeClamped ==
    szIn.called =>
       LET st == szIn.o.settings
           balance == Balance(szIn.o) + szIn.unrealized
           plan == MaxContractsForBalance(balance)
           top == IF plan <= st.max_position_size THEN plan
                  ELSE st.max_position_size
       IN  /\ (st.min_position_size <= plan
                 /\ st.min_position_size <= st.max_position_size)
                 => (0 <= szOut /\ szOut <= top)
           /\ (/\ szIn.signal = [symbol |-> "MES", entry_price |-> 4000,
                                  stop_loss |-> 3990]
               /\ balance = 50000
               /\ szIn.o.daily_pnl = 0
               /\ st.max_position_size = 5
               /\ st.min_position_size <= 5)
                 => szOut = 5

\* C17 witness: with max_position_size 10 a balance of 2000 was sized at the
\* scaling plan's 3 contracts, above min_position_size
C17_Witness ==
    /\ szIn.called
    /\ szIn.o.settings.max_position_size = 10
    /\ szIn.o.settings.min_position_size = 1
    /\ Balance(szIn.o) + szIn.unrealized \in 1500..2999
    /\ szOut = 3


\* C14: consecutive failed connect cycles sleep the initial delay, twice it,
\* four times it and so on, never more than the maximum delay, and the
\* reconnect sleep after a cycle that reached SUBSCRIBED is the initial delay
\* again: each sleep is min(initial * 2^k, maximum), k the number of sleeps
\* since the loop started or last reached SUBSCRIBED.
C14_BackoffDoublesCapsResets ==
    \A i \in 1..Len(wsSleeps) :
        /\ wsSleeps[i].time <= WsMaxDelay
        /\ wsSleeps[i].time =
              Min2(WsInitialDelay * Pow2(wsSleeps[i].streak), WsMaxDelay)

\* four failed cycles in a row have slept 1, 2, 4 and the maximum; the next
\* cycle reached SUBSCRIBED and slept the initial delay
C14_Witness ==
    /\ Len(wsSleeps) = 5
    /\ wsSleeps[3].time = 4 * WsInitialDelay
    /\ wsSleeps[4].streak = 3
    /\ wsSleeps[4].time = WsMaxDelay
    /\ wsSleeps[5].streak = 0
    /\ wsSleeps[5].time = WsInitialDelay
    /\ wsSubs = 1

\* C15: when disconnect() returns, the loop task has finished and both
\* channel handles are released, and from then on the loop starts no
\* connection attempt, subscription or sleep unless connect() is called
\* again, whichever state the loop was in when disconnect() was called.
C15_DisconnectStopsEverything ==
    [][ /\ (~wsReturned /\ wsReturned') =>
               (wsLoopPc' = "exited" /\ wsHandles' = {})
        /\ (wsReturned /\ wsReturned') =>
               /\ wsLoopPc' = "exited"
               /\ wsHandles' = {}
               /\ wsAttempts' = wsAttempts
               /\ wsSubs' = wsSubs
               /\ wsSleeps' = wsSleeps ]_vars

\* disconnect() was called while both hubs were starting, and has returned
C15_Witness ==
    /\ wsReturned
    /\ wsInterrupted = "starting"
    /\ wsLoopPc = "exited"

\* C16: disconnect() called while the loop sleeps its backoff wakes the
\* sleep: once the stop flag is cleared, no more of the sleep passes.
C16_DisconnectWakesBackoff ==
    [][ (wsLoopPc = "sleep" /\ ~wsRunning /\ wsLoopPc' = "sleep") =>
            wsSleepLeft' = wsSleepLeft ]_vars

\* C20: two events of one channel are delivered to every callback of the
\* event type in arrival order: no callback is invoked with a later event
\* before it is invoked with an earlier one.
C20_DeliveryInArrivalOrder ==
    \A i, j \in 1..Len(fdLog) :
        (i < j /\ fdLog[i].cb = fdLog[j].cb) => fdLog[i].e < fdLog[j].e

\* C21: an event whose normalization fails is dropped: no callback is called
\* with it, neither in normalized nor in raw form.
C21_MalformedEventDropped ==
    (emIn.called /\ NormalizationFails(emIn.type, emIn.payload)) =>
        emOut = <<>>

\* C22: every realized fill delivered for a bot's account is eventually
\* reconciled into the bot's governor through update_pnl: once fills have
\* been delivered, total_pnl comes to be their sum.
C22_FillsReconciled ==
    (flFills # <<>>) ~>
        (botRm["A"] # 0 /\ rmObj[botRm["A"]].total_pnl = SumSeq(flFills))

\* the HTTP attempts of the call sent within one window of its first attempt
SentInWindow == {i \in 1..reqSent : SleptBefore(i) < HistoricalWindow}

\* C23: every HTTP attempt sent to the gateway, retries included, first
\* acquires a slot of its lane's RateLimiter, so a call never has more
\* requests in a window than slots it acquired.
C23_SlotPerAttempt ==
    /\ reqSent <= reqAcquired
    /\ Cardinality(SentInWindow) <= reqAcquired

RequiredSubscriptions(account_id) ==
    {[channel |-> "user", method |-> "SubscribeAccounts", account |-> 0]}
    \cup {[channel |-> "user", method |-> mth, account |-> account_id] :
            mth \in {"SubscribeOrders", "SubscribePositions", "SubscribeTrades"}}
    \cup {[channel |-> "market", method |-> mth, account |-> account_id] :
            mth \in {"SubscribeQuotes", "SubscribeTrades"}}

\* C25: whenever the loop is SUBSCRIBED it has sent the account, orders,
\* positions and trades subscriptions on the user hub and the quotes and
\* trades subscriptions on the market hub, for the resolved account id.
C25_AllSubscriptionsSent ==
    wsLoopPc = "subscribed" =>
        /\ wsAccount # 0
        /\ RequiredSubscriptions(wsAccount) \subseteq wsSent

\* C26: the daily-loss trigger of can_trade fires exactly when the day's
\* realized loss, the negative of daily_pnl, is at least 95% of
\* daily_loss_limit; a day in profit does not cause a halt.
C26_DailyLossTriggerOnLossOnly ==
    [][ \A i \in DOMAIN rmObj :
          /\ ( /\ ~rmObj[i].trading_halted
               /\ rmObj'[i].trading_halted
               /\ rmObj'[i].trading_halted_reason = "Approaching daily loss limit" )
                => LossAtThreshold(rmObj[i])
          /\ ( /\ rmLast'.op = "can_trade"
               /\ botRm[rmLast'.bot] = i
               /\ ~rmObj[i].trading_halted
               /\ IsTradingHours(Minute)
               /\ LossAtThreshold(rmObj[i]) )
                => ( /\ rmObj'[i].trading_halted
                     /\ rmObj'[i].trading_halted_reason =
                            "Approaching daily loss limit" ) ]_vars

\* C27: can_trade() evaluated outside the trading-hours window, and
\* check_trade_risk evaluated inside the pre-close blackout, leave the
\* governor HALTED, trading_halted true with a reason.
C27_HoursAndBlackoutHalt ==
    [][ /\ (rmLast'.op = "can_trade" /\ ~IsTradingHours(Minute)) =>
              LET n == rmObj'[botRm[rmLast'.bot]] IN
                n.trading_halted /\ n.trading_halted_reason # ""
        /\ (rmLast'.op = "check_trade_risk" /\ IsNearMarketClose(Minute)) =>
              LET n == rmObj'[botRm[rmLast'.bot]] IN
                n.trading_halted /\ n.trading_halted_reason # "" ]_vars

\* C28: a quantity q > 0 returned by calculate_position_size risks at most
\* 80% of the remaining daily-loss budget, q * |entry - stop| * tick value
\* <= 0.8 * (daily_loss_limit - |daily_pnl|), and when that budget does not
\* cover one contract the quantity is 0.
C28_WithinDailyBudget ==
    szIn.called =>
       LET sig == szIn.signal
           per == Abs(sig.entry_price - sig.stop_loss) * TickValue(sig.symbol)
           budget10 == (szIn.o.settings.daily_loss_limit
                          - Abs(szIn.o.daily_pnl)) * 8
       IN  /\ szOut > 0 => szOut * per * 10 <= budget10
           /\ per * 10 > budget10 => szOut = 0

\* C28 witness: with 200 of the daily budget left, 160 at 80%, and 50 at
\* risk per contract, five contracts were cut down to three
C28_Witness ==
    /\ szIn.called
    /\ szIn.o.daily_pnl = -800
    /\ szIn.o.settings.max_position_size = 5
    /\ Balance(szIn.o) + szIn.unrealized = 50000
    /\ szIn.signal = [symbol |-> "MES", entry_price |-> 4000, stop_loss |-> 3990]
    /\ szOut = 3

\* C29: update_pnl changes total_pnl, daily_pnl, high_water_mark,
\* best_day_profit and consecutive_losses only, never trading_halted or its
\* reason; consecutive_losses grows by one on a negative delta and becomes 0
\* on any other.
C29_UpdatePnlNeverHalts ==
    [][ rmLast'.op = "update_pnl" =>
          LET i == botRm[rmLast'.bot]
              o == rmObj[i]
              n == rmObj'[i]
              delta == n.total_pnl - o.total_pnl
          IN  /\ n.trading_halted = o.trading_halted
              /\ n.trading_halted_reason = o.trading_halted_reason
              /\ n.settings = o.settings
              /\ n.current_date = o.current_date
              /\ n.daily_start_balance = o.daily_start_balance
              /\ n.daily_pnl = o.daily_pnl + delta
              /\ n.consecutive_losses =
                    IF delta < 0 THEN o.consecutive_losses + 1 ELSE 0 ]_vars

\* C29 witness: update_pnl has put the best day above half of a positive
\* total, past the consistency threshold, and trading is not halted
C29_Witness ==
    /\ rmLast.op = "update_pnl"
    /\ LET o == rmObj[botRm[rmLast.bot]] IN
         /\ o.total_pnl > 0
         /\ o.best_day_profit * 2 > o.total_pnl
         /\ ~o.trading_halted

\* C30: a request the gateway rejects with HTTP 401 fails without retry, and
\* the token fetch of the next request logs in afresh instead of handing out
\* the cached token.
C30_RejectedTokenRefreshed ==
    \A i \in 1..Len(snLog) :
        \A k \in 1..Len(snLog[i].seen) :
            snLog[i].seen[k] = 401 =>
                /\ k = Len(snLog[i].seen)
                /\ snLog[i].result.kind = "error"
                /\ (i < Len(snLog)) => snLog[i + 1].login

\* a 2xx answer whose body is not JSON
IsMalformed(r) == r.status = 200 /\ ~IsJson(r.body)

\* C31: a 2xx answer whose body is not JSON is retried like a server error:
\* a backoff sleep and a further attempt follow it, unless it is the answer
\* to the last of max_retries attempts, and only then the call fails.
C31_MalformedRetried ==
    \A i \in DOMAIN reqReceived :
        IsMalformed(reqReceived[i]) =>
            \/ i <= Len(reqSleeps) /\ reqSleeps[i] = Pow2(i - 1)
            \/ /\ reqPc = "done"
               /\ i = Len(reqReceived)
               /\ reqSent = MaxRetries
               /\ reqResult.kind \in {"error", "raise"}

\* the operations that judge the envelope of the answer
EnvelopeOperations ==
    {"list_accounts", "list_available_contracts", "search_contracts",
     "flatten_account", "place_order"}

\* C32: list_accounts, list_available_contracts, search_contracts,
\* flatten_account and place_order return Success only for an envelope with
\* success = true and errorCode = 0, and an Error for every other envelope.
C32_SuccessOnlyForFullEnvelope ==
    (reqClient = "v2" /\ reqPc = "done" /\ reqOp \in EnvelopeOperations
       /\ reqResult.kind = "success") =>
        IF reqResult.body = "json" THEN opResult.kind = "success"
        ELSE opResult.kind = "error"

\* the login attempt of a logged request failed
LoginFailedIn(e) ==
    /\ e.login
    /\ \/ e.outcome \in {"http_error", "error_envelope", "no_token"}
       \/ e.outcome = "invalid_token" /\ authValidate

\* C33: a failed login attempt (HTTP error, error envelope, missing token or
\* failed validation) caches nothing, access_token and token_expires_at keep
\* their values, and the V2 request sends nothing and returns Error 401.
C33_FailedLoginCachesNothing ==
    \A i \in 1..Len(snLog) :
        LoginFailedIn(snLog[i]) =>
            /\ snLog[i].cachedAfter = snLog[i].cachedBefore
            /\ snLog[i].expAfter = snLog[i].expBefore
            /\ snLog[i].seen = <<>>
            /\ snLog[i].result.kind = "error"
            /\ snLog[i].result.status_code = 401

\* a cached token has expired, the login that follows fails validation, and
\* the expired token and its expiry are still the cached ones
C33_Witness ==
    /\ Len(snLog) = 2
    /\ snLog[1].login /\ snLog[1].cachedAfter = 1
    /\ snLog[2].outcome = "invalid_token" /\ LoginFailedIn(snLog[2])
    /\ access_token = 1
    /\ token_expires_at = snLog[1].expAfter
    /\ snLog[2].result.status_code = 401

\* C34: once TradingBot.start() has raised, the bot stays registered with
\* its running flag False, and get_account_status and get_bot_health report
\* the account as not running.
C34_FailedStartNotRunning ==
    \A a \in Bots :
        botTask[a] = "raised" =>
            /\ a \in amBots
            /\ ~botRunning[a]
            /\ amStatus[a] # "running"
            /\ amHealth[a] # "running"

\* C35: a governor in its initial state with the default 50K profile is
\* active: can_trade() inside trading hours returns true and latches no halt.
C35_FreshGovernorActive ==
    [][ \A b \in Bots :
          ( /\ rmLast'.op = "can_trade" /\ rmLast'.bot = b
            /\ botRm[b] # 0
            /\ rmObj[botRm[b]] = NewRiskManager(Profile50K)
            /\ IsTradingHours(Minute) ) =>
              /\ rmLast'.ret
              /\ ~rmObj'[botRm[b]].trading_halted ]_vars

\* C36: a close notification left over from the teardown of the previous
\* cycle, or from the second hub closing after the first, does not affect
\* the next cycle: when both hubs have started, none of them has closed and
\* disconnect() was not called, the loop is SUBSCRIBED and does not tear down
\* again.
C36_StaleCloseIgnored ==
    [][ ( /\ wsLoopPc = "starting" /\ wsSubs' = wsSubs + 1
          /\ wsRunning /\ ~wsClosedNow ) =>
            wsLoopPc' = "subscribed" ]_vars

\* C37: a quantity q > 0 returned by calculate_position_size risks at most
\* the per-trade budget, q * |entry - stop| * tick value <= balance *
\* risk_per_trade_percent, and a signal whose single contract risks more
\* than that budget gets 0.
C37_WithinTradeBudget ==
    szIn.called =>
       LET sig == szIn.signal
           per == Abs(sig.entry_price - sig.stop_loss) * TickValue(sig.symbol)
           budget1000 == (Balance(szIn.o) + szIn.unrealized) * RiskPerTradePermille
       IN  /\ szOut > 0 => szOut * per * 1000 <= budget1000
           /\ per * 1000 > budget1000 => szOut = 0

\* the positions query failed: retries exhausted, a 4xx rejection, or an
\* envelope with success = false
QueryFailed(res) ==
    \/ res.kind \in {"raise", "error_dict"}
    \/ res.kind = "success" /\ res.body = "json_fail"

\* C38: a positions query that fails leaves the tracked positions unchanged,
\* and a tracked position is removed only when a successful query no longer
\* lists it.
C38_FailedQueryKeepsPositions ==
    ptLast.called =>
        /\ QueryFailed(ptLast.result) => ptPositions = ptLast.before
        /\ \A p \in ptLast.before \ ptPositions :
              ~QueryFailed(ptLast.result) /\ p \notin ptLast.open

\* C39: while paper_trading_mode is true OrderManager invokes no gateway
\* order primitive: execute_signal, cancel_order, modify_order and
\* close_all_positions change local state only.
C39_PaperSendsNothing ==
    botPaper["A"] =>
        /\ omCalls = {}
        /\ \A o \in gwOrders : o.bot # "A"

\* in paper mode a signal was executed, the order modified and cancelled,
\* and positions were closed, all locally
C39_Witness ==
    /\ botPaper["A"]
    /\ omDone = {"execute_signal", "cancel_order", "modify_order",
                 "close_all_positions"}
    /\ Len(omOrders) = 1
    /\ omOrders[1].status = "CANCELLED"
    /\ omCalls = {}

====
